---------------------------- MODULE Spec2Model ----------------------------
(***************************************************************************)
(* State-synchronisation engine of the OpenIM client core                  *)
(* (rust/src/im): the push dispatcher of client.rs, the conversation       *)
(* syncer of conversation/service.rs and the local_conversations and       *)
(* local_version_sync tables of conversation/dao.rs.                       *)
(*                                                                         *)
(* The server is an external collaborator: the reply of every HTTP         *)
(* endpoint and every pushed frame is an input.  A sync pass draws one     *)
(* reply per endpoint (the server does not change while a pass runs) and   *)
(* a set of calls that fail.                                               *)
(***************************************************************************)
EXTENDS Integers, Sequences, FiniteSets, TLC

(***************************************************************************)
(* Bounds of the model                                                     *)
(***************************************************************************)
MaxSeq == 2

MaxUnread == 3

MaxUuid == 3

MaxVersion == 3

\* kick-offline frames handled in a session
MaxKicks == 1

\* frames the client's send methods write in a session
MaxSent == 1

ConvIds == {"c1", "c2"}

MsgIds == {"m1", "m2"}

SelfUser == "self"

PeerUser == "peer"

(***************************************************************************)
(* Content types (openim_protocol::constant), kept symbolic                *)
(***************************************************************************)
TEXT == "TEXT"

TYPING == "TYPING"

FRIEND_ADDED_NOTIFICATION == "FRIEND_ADDED_NOTIFICATION"

CONVERSATION_CHANGE_NOTIFICATION == "CONVERSATION_CHANGE_NOTIFICATION"

ContentTypes ==
    {TEXT, TYPING, FRIEND_ADDED_NOTIFICATION, CONVERSATION_CHANGE_NOTIFICATION}

VARIABLES
    convs,      \* table local_conversations: conversation_id -> row
    ver,        \* row (local_conversations, user) of local_version_sync
    uuidN,      \* number of Uuid::new_v4() values drawn so far
    received_msg_ids,   \* OpenIMClient.received_msg_ids
    recvNewMessage,     \* client_msg_id -> number of on_recv_new_message calls
    last,       \* the last operation: its inputs and what it observed
    pc,         \* where the tasks connect() spawns stand
    total_unread,   \* the total on_new_message read for its callback
    message_store,  \* OpenIMClient.message_store and its chat-log rows
    http_requests,  \* the HTTP requests the client's own methods have sent
    connection_status,  \* arguments of on_connection_status_changed so far
    kicked_offline,  \* number of on_kicked_offline calls so far
    writer,  \* OpenIMClient.writer is Some
    sent_frames,  \* number of frames written to the write half
    friends,  \* table local_friends of the user: friend_user_id -> row
    friend_ver,  \* row (local_friends, user) of local_version_sync
    overlap,  \* the incr_sync_conversations passes under way: what each has read
    transport   \* the WebSocket connection: "none", "open" or "closed"

vars == <<convs, ver, uuidN, received_msg_ids, recvNewMessage, last, pc,
          total_unread, message_store, http_requests, connection_status,
          kicked_offline,
          writer,
          sent_frames,
          friends,
          friend_ver,
          overlap,
          transport>>

(***************************************************************************)
(* Rows                                                                    *)
(***************************************************************************)
\* LocalConversation: the fields the syncer and the push path read or write
LocalConversation(unread, maxSeq, minSeq, latest, sendTime, pinned) ==
    [unread_count |-> unread, max_seq |-> maxSeq, min_seq |-> minSeq,
     latest_msg |-> latest, latest_msg_send_time |-> sendTime,
     is_pinned |-> pinned, draft_text_time |-> 0]

NoVersionSync == [exists |-> FALSE, version |-> 0, version_id |-> ""]

LocalVersionSync(version, versionId) ==
    [exists |-> TRUE, version |-> version, version_id |-> versionId]

\* Uuid::new_v4().to_string(): the n-th value drawn, distinct from all others
\* and from every version id the server issues
UuidV4(n) == "uuid-" \o ToString(n)

(***************************************************************************)
(* ConversationDao                                                         *)
(***************************************************************************)
upsert_conversation(table, id, row) ==
    [c \in DOMAIN table \cup {id} |-> IF c = id THEN row ELSE table[c]]

delete_conversation(table, id) ==
    [c \in DOMAIN table \ {id} |-> table[c]]

RECURSIVE SumUnread(_, _)
SumUnread(table, ids) ==
    IF ids = {} THEN 0
    ELSE LET c == CHOOSE x \in ids : TRUE
         IN table[c].unread_count + SumUnread(table, ids \ {c})

get_total_unread_count(table) == SumUnread(table, DOMAIN table)


(***************************************************************************)
(* Server replies: the inputs of one sync pass                             *)
(***************************************************************************)
\* the calls a pass can make, in the order of the code; seqs2 and all2 are
\* the calls made inside sync_unread_by_seq
Calls == {"ids", "all", "seqs", "incr", "seqs2", "all2"}

\* at most one call of a pass fails
FailSets == {{}} \cup {{c} : c \in Calls}

\* get_conversations_has_read_and_max_seq: conversationID -> (maxSeq, hasReadSeq)
SeqInfo(maxSeq, hasReadSeq) == [max_seq |-> maxSeq, has_read_seq |-> hasReadSeq]

SeqInfos == {SeqInfo(m, h) : m \in {0, MaxSeq}, h \in {0, 1}}

SeqsReplies == UNION {[S -> SeqInfos] : S \in SUBSET ConvIds}

\* the conversation objects of one reply share their attributes: is_pinned
\* stands for the fields conversations_equal compares, minSeq is the
\* conversation's minSeq as the server stores it; the fields the server does
\* not return take their serde defaults
PayloadShapes == {[is_pinned |-> p, min_seq |-> m] : p \in BOOLEAN, m \in {0, 1}}

ServerConversation(shape) ==
    LocalConversation(0, 0, shape.min_seq, "", 0, shape.is_pinned)

\* get_incremental_conversations
IncrementalConversationResp(full, version, versionId, ins, upd, del) ==
    [full |-> full, version |-> version, version_id |-> versionId,
     insert |-> ins, update |-> upd, delete |-> del]

IncrReplies ==
    {IncrementalConversationResp(f, v, vid, i, u, d) :
        f \in BOOLEAN, v \in {0, 2}, vid \in {"", "b"},
        i \in {{}, {"c2"}}, u \in {{}, {"c1"}}, d \in {{}, {"c1"}, {"c2"}}}

\* the database during a pass: failing holds the conversations whose
\* upsert_conversation in the loop of sync_conversations returns Err, and
\* earlier the conversations that the iteration over the server_map HashMap
\* visits before the first of them
NoDbError == [failing |-> {}, earlier |-> {}]

\* one reply per endpoint; get_full_conversation_ids lists the IDs of
\* get_all_conversations
ServerReplies ==
    [all_ids : SUBSET ConvIds, shape : PayloadShapes, seqs : SeqsReplies,
     incr : IncrReplies, fail : FailSets, db : {NoDbError}]

AllConversationsResp(srv) ==
    [c \in srv.all_ids |-> ServerConversation(srv.shape)]

\* the body of the get_full_conversation_ids reply: the ID list with the
\* server's current version pair, the one get_incremental_conversations
\* reports as well
FullConversationIdsResp(srv) ==
    [conversation_ids |-> srv.all_ids, version |-> srv.incr.version,
     version_id |-> srv.incr.version_id]

\* ConversationApi::get_all_conversation_ids decodes conversationIDs only
get_all_conversation_ids(srv) == FullConversationIdsResp(srv).conversation_ids

(***************************************************************************)
(* ConversationSyncer                                                      *)
(***************************************************************************)
\* (max_seq - has_read_seq).max(0) as i32
UnreadOf(info) ==
    IF info.max_seq - info.has_read_seq > 0
    THEN info.max_seq - info.has_read_seq ELSE 0

conversations_equal(local, server) ==
    /\ local.is_pinned = server.is_pinned
    /\ local.max_seq = server.max_seq
    /\ local.min_seq = server.min_seq

\* sync_unread_by_seq on table t: the table it leaves.  A failed seqs call
\* or an empty seq map leaves the table as it is.
sync_unread_by_seq(t, srv) ==
    IF "seqs2" \in srv.fail \/ DOMAIN srv.seqs = {} THEN t
    ELSE
      LET seqs == srv.seqs
          corrected ==
            [c \in DOMAIN t |->
               IF c \in DOMAIN seqs
                  /\ (t[c].unread_count # UnreadOf(seqs[c])
                      \/ t[c].max_seq # seqs[c].max_seq)
               THEN [t[c] EXCEPT !.unread_count = UnreadOf(seqs[c]),
                                 !.max_seq = seqs[c].max_seq]
               ELSE t[c]]
          missing == DOMAIN seqs \ DOMAIN t
          server_map == AllConversationsResp(srv)
          found == IF "all2" \in srv.fail THEN {}
                   ELSE missing \cap DOMAIN server_map
      IN [c \in DOMAIN corrected \cup found |->
            IF c \in found
            THEN [server_map[c] EXCEPT !.unread_count = UnreadOf(seqs[c]),
                                       !.max_seq = seqs[c].max_seq]
            ELSE corrected[c]]

\* variant: the server rows as the conversation endpoint sent them
ServerMapAsSent(server_conversations, seqs, hasSeqs) == server_conversations

\* server_map of sync_conversations after the seqs have been applied to it;
\* hasSeqs is FALSE when seqs_map is None
ServerMapWithSeqs(server_conversations, seqs, hasSeqs) ==
    [c \in DOMAIN server_conversations |->
       IF hasSeqs /\ c \in DOMAIN seqs
       THEN [server_conversations[c] EXCEPT
               !.unread_count = UnreadOf(seqs[c]), !.max_seq = seqs[c].max_seq]
       ELSE server_conversations[c]]

\* variant: a pass that deletes nothing
SyncDeletesNone(server_map, local_conversations) == {}

\* the local IDs sync_conversations deletes
SyncDeletes(server_map, local_conversations) ==
    DOMAIN local_conversations \ DOMAIN server_map

\* the conversations for which the loop of sync_conversations calls
\* upsert_conversation: the new ones and the ones that differ
SyncWrites(server_map, local_conversations) ==
    {c \in DOMAIN server_map :
       \/ c \notin DOMAIN local_conversations
       \/ ~conversations_equal(local_conversations[c], server_map[c])
       \/ local_conversations[c].unread_count # server_map[c].unread_count
       \/ local_conversations[c].max_seq # server_map[c].max_seq}

\* self.upsert_conversation(server_conv).await? returns Err for one of the
\* rows sync_conversations writes
upsert_fails(server_conversations, local_conversations, seqs, db) ==
    SyncWrites(ServerMapWithSeqs(server_conversations, seqs.map, seqs.some),
               local_conversations) \cap db.failing # {}

\* seqs_map as a pass hands it to sync_conversations: None when the fetch
\* failed
seqs_map(srv) == [map |-> srv.seqs, some |-> "seqs" \notin srv.fail]

\* sync_conversations when an upsert fails: table t with the rows written
\* before the `?` returned; nothing is deleted and no callback is made
sync_conversations_err(t, server_conversations, local_conversations, seqs, db) ==
    LET server_map == ServerMapWithSeqs(server_conversations, seqs.map, seqs.some)
        written == SyncWrites(server_map, local_conversations)
        done == (written \cap db.earlier) \ db.failing
    IN [c \in DOMAIN t \cup done |->
          IF c \in done THEN server_map[c] ELSE t[c]]

\* sync_conversations: table t after the pass over server_conversations,
\* compared against the snapshot local_conversations
sync_conversations(t, server_conversations, local_conversations, seqs, hasSeqs) ==
    LET server_map == ServerMapWithSeqs(server_conversations, seqs, hasSeqs)
        written == SyncWrites(server_map, local_conversations)
        deleted == SyncDeletes(server_map, local_conversations)
    IN [c \in (DOMAIN t \cup written) \ deleted |->
          IF c \in written THEN server_map[c] ELSE t[c]]

\* ConversationListener: the sync events, as the listener receives them
on_sync_server_start(reinstalled) ==
    IF reinstalled THEN "start(true)" ELSE "start(false)"

on_sync_server_progress(progress) == "progress(" \o ToString(progress) \o ")"

on_sync_server_finish(reinstalled) ==
    IF reinstalled THEN "finish(true)" ELSE "finish(false)"

on_sync_server_failed(reinstalled) ==
    IF reinstalled THEN "failed(true)" ELSE "failed(false)"

\* result of a pass: the tables it leaves, Ok or Err, the branch it took
\* and the sync events it emitted, in order
PassResult(t, v, n, ok, path, events) ==
    [convs |-> t, ver |-> v, uuidN |-> n, ok |-> ok, path |-> path,
     events |-> events, unread_by_seq |-> FALSE]

\* the end of a pass: if let Err(e) = self.sync_unread_by_seq().await
\* { warn }, then Ok(()); r is the pass up to that call
ThenUnreadBySeq(r, srv) ==
    [r EXCEPT !.convs = sync_unread_by_seq(r.convs, srv),
              !.unread_by_seq = TRUE]

\* full_sync; emitted holds the events of the caller
full_sync(t, v, n, srv, path, emitted) ==
    LET reinstalled == DOMAIN t = {}
        started == emitted \o <<on_sync_server_start(reinstalled),
                                on_sync_server_progress(10)>>
    IN IF "all" \in srv.fail
       THEN PassResult(t, v, n, FALSE, path,
                       started \o <<on_sync_server_failed(reinstalled)>>)
       ELSE IF upsert_fails(AllConversationsResp(srv), t, seqs_map(srv), srv.db)
       THEN PassResult(sync_conversations_err(t, AllConversationsResp(srv), t,
                                              seqs_map(srv), srv.db),
                       v, n, FALSE, path,
                       started \o <<on_sync_server_progress(30),
                                    on_sync_server_progress(50)>>)
       ELSE
         LET synced == sync_conversations(t, AllConversationsResp(srv), t,
                                          srv.seqs, "seqs" \notin srv.fail)
             new_version == LocalVersionSync(1, UuidV4(n + 1))
         IN ThenUnreadBySeq(
              PassResult(synced, new_version, n + 1, TRUE, path,
                         started \o <<on_sync_server_progress(30),
                                      on_sync_server_progress(50),
                                      on_sync_server_progress(80),
                                      on_sync_server_progress(100),
                                      on_sync_server_finish(reinstalled)>>),
              srv)

\* incr_sync_conversations from its first await on: t and v are the table
\* and the version row when its writes land, local_conversations and
\* version_sync what it read when it started
incr_sync_from(t, v, local_conversations, version_sync, n, srv) ==
    IF DOMAIN local_conversations = {}
    THEN full_sync(t, v, n, srv, "reinstalled", <<on_sync_server_start(TRUE)>>)
    ELSE IF ~version_sync.exists THEN
      IF "ids" \in srv.fail
      THEN PassResult(t, v, n, FALSE, "no_version", <<>>)
      ELSE IF get_all_conversation_ids(srv) # DOMAIN local_conversations
      THEN full_sync(t, v, n, srv, "ids_differ", <<>>)
      ELSE IF "all" \in srv.fail
      THEN PassResult(t, v, n, FALSE, "no_version", <<>>)
      ELSE IF upsert_fails(AllConversationsResp(srv), local_conversations,
                           seqs_map(srv), srv.db)
      THEN PassResult(sync_conversations_err(t, AllConversationsResp(srv),
                                             local_conversations,
                                             seqs_map(srv), srv.db),
                      v, n, FALSE, "no_version", <<>>)
      ELSE PassResult(
             sync_conversations(t, AllConversationsResp(srv),
                                local_conversations,
                                srv.seqs, "seqs" \notin srv.fail),
             LocalVersionSync(1, UuidV4(n + 1)), n + 1, TRUE, "no_version",
             <<>>)
    ELSE IF "incr" \in srv.fail
    THEN PassResult(t, v, n, FALSE, "incremental",
                    <<on_sync_server_start(FALSE), on_sync_server_progress(10),
                      on_sync_server_failed(FALSE)>>)
    ELSE IF srv.incr.full
    THEN full_sync(t, v, n, srv, "server_full",
                   <<on_sync_server_start(FALSE), on_sync_server_progress(10),
                     on_sync_server_progress(50)>>)
    ELSE
      LET resp == srv.incr
          server_conversations ==
            [c \in resp.insert \cup resp.update |-> ServerConversation(srv.shape)]
          synced == sync_conversations(t, server_conversations,
                                       local_conversations,
                                       srv.seqs, "seqs" \notin srv.fail)
          removed == [c \in DOMAIN synced \ resp.delete |-> synced[c]]
          new_version ==
            IF resp.version_id # ""
            THEN LocalVersionSync(
                   IF resp.version > 0 THEN resp.version
                   ELSE version_sync.version + 1,
                   resp.version_id)
            ELSE v
      IN IF upsert_fails(server_conversations, local_conversations,
                         seqs_map(srv), srv.db)
         THEN PassResult(sync_conversations_err(t, server_conversations,
                                                local_conversations,
                                                seqs_map(srv), srv.db),
                         v, n, FALSE, "incremental",
                         <<on_sync_server_start(FALSE),
                           on_sync_server_progress(10),
                           on_sync_server_progress(50)>>)
         ELSE ThenUnreadBySeq(
           PassResult(removed, new_version, n, TRUE, "incremental",
                      <<on_sync_server_start(FALSE),
                        on_sync_server_progress(10),
                        on_sync_server_progress(50),
                        on_sync_server_progress(80),
                        on_sync_server_progress(100),
                        on_sync_server_finish(FALSE)>>),
           srv)

\* incr_sync_conversations run from its first line to its return
incr_sync_conversations(t, v, n, srv) == incr_sync_from(t, v, t, v, n, srv)


(***************************************************************************)
(* Pushed messages (sdkws::MsgData)                                        *)
(***************************************************************************)
\* options["unreadCount"]: absent, true or false
UnreadOptions == {"absent", "true", "false"}

MsgData(id, seq, sendId, contentType, unreadOpt, sendTime, createTime) ==
    [client_msg_id |-> id, seq |-> seq, send_id |-> sendId,
     content_type |-> contentType, unread_count_opt |-> unreadOpt,
     send_time |-> sendTime, create_time |-> createTime]

\* one message of a PushMessages frame: the conversation it is keyed under
\* and the map it sits in (msgs or notification_msgs)
FrameEntry(conv, msg, notif) ==
    [conversation_id |-> conv, msg |-> msg, is_notification |-> notif]

\* the notifications on_new_message routes to incr_sync_conversations
\* (of the six listed in the code, the model carries one)
IsConversationNotification(contentType) ==
    contentType = CONVERSATION_CHANGE_NOTIFICATION

\* build_latest_msg_summary; the labels are the code's, in ASCII.  A TEXT
\* message carries the JSON {"content":"hi"}.
build_latest_msg_summary(msg) ==
    CASE msg.content_type = TEXT -> "hi"
      [] msg.content_type = FRIEND_ADDED_NOTIFICATION -> "[friend notification]"
      [] OTHER -> "[new message]"

\* variant: the comparison without the saturating_sub(1)
is_new_msg_strict(msg, conv) == msg.seq > conv.max_seq

\* is_new_msg of on_new_message, decided on the row whose max_seq has
\* already been raised to max(max_seq, msg.seq)
is_new_msg(msg, conv) == msg.seq > conv.max_seq - 1

should_count_unread(msg, is_notification) ==
    IF msg.send_id = SelfUser \/ is_notification THEN FALSE
    ELSE msg.unread_count_opt # "false"

\* the row on_new_message writes for msg, from the row it read (existing)
\* or from the defaults of a new conversation
UpdatedConversation(hasRow, existing, msg, is_notification) ==
    LET conv == IF hasRow THEN existing
                ELSE LocalConversation(0, msg.seq, msg.seq, "", 0, FALSE)
        send_time == IF msg.send_time > 0 THEN msg.send_time
                     ELSE msg.create_time
        merged == [conv EXCEPT
                     !.latest_msg = build_latest_msg_summary(msg),
                     !.latest_msg_send_time = send_time,
                     !.max_seq = IF conv.max_seq > msg.seq THEN conv.max_seq
                                 ELSE msg.seq]
    IN IF should_count_unread(msg, is_notification) /\ is_new_msg(msg, merged)
       THEN [merged EXCEPT !.unread_count = merged.unread_count + 1]
       ELSE merged

\* what the last message of an operation met
\*   how: "none" | "duplicate" | "typing" | "delegated" | "applied"
NoRow == LocalConversation(0, 0, 0, "", 0, FALSE)

NoMsg == MsgData("", 0, "", "", "absent", 0, 0)

Seen(how, entry, hasRow, pre) ==
    [how |-> how, entry |-> entry, had_row |-> hasRow, pre |-> pre]

NoEntry == FrameEntry("", NoMsg, FALSE)

NothingSeen == Seen("none", NoEntry, FALSE, NoRow)

\* the client's state as the push path threads it
\* friend_syncs and on_new_message_calls count, per client_msg_id, the
\* incr_sync_friends runs the call scheduled and its on_new_message calls
ClientState(t, v, n, ids, calls, seen) ==
    [convs |-> t, ver |-> v, uuidN |-> n, received_msg_ids |-> ids,
     recvNewMessage |-> calls, seen |-> seen,
     friend_syncs |-> [m \in MsgIds |-> 0],
     on_new_message_calls |-> [m \in MsgIds |-> 0]]

\* on_new_message
on_new_message(st, entry, srv) ==
    LET msg == entry.msg
        id == entry.conversation_id
    IN IF entry.is_notification /\ IsConversationNotification(msg.content_type)
       THEN LET r == incr_sync_conversations(st.convs, st.ver, st.uuidN, srv)
            IN [st EXCEPT !.convs = r.convs, !.ver = r.ver, !.uuidN = r.uuidN,
                          !.seen = Seen("delegated", entry, FALSE, NoRow)]
       ELSE LET hasRow == id \in DOMAIN st.convs
                existing == IF hasRow THEN st.convs[id] ELSE NoRow
                conv == UpdatedConversation(hasRow, existing, msg,
                                            entry.is_notification)
            IN [st EXCEPT !.convs = upsert_conversation(st.convs, id, conv),
                          !.seen = Seen("applied", entry, hasRow, existing)]

\* variant: a guard that remembers nothing
never_duplicate(ids, msg_id) == FALSE

\* is_duplicate_message: TRUE when the id was already in the set; the id is
\* in the set afterwards either way
is_duplicate_message(ids, msg_id) == msg_id \in ids

\* handle_single_message: whether it hands the message to on_recv_new_message
DeliversNewMessage(msg) == msg.content_type # TYPING

\* variant: every message is handed to on_new_message
UpdatesConversationAlways(msg) == TRUE

\* handle_push_message: whether the message is handed to on_new_message
UpdatesConversation(msg) == msg.content_type # TYPING

\* variant: no content type starts a friend sync
IsNoFriendNotification(contentType) == FALSE

\* content_type within FRIEND_APPLICATION_APPROVED_NOTIFICATION ..
\* FRIENDS_INFO_UPDATE_NOTIFICATION (of the range, the model carries one)
IsFriendNotification(contentType) == contentType = FRIEND_ADDED_NOTIFICATION

\* one iteration of the loops of handle_push_message; the friend sync is
\* spawned in the loop over notification_msgs only
HandleEntry(st, entry, srv) ==
    LET msg == entry.msg
    IN IF is_duplicate_message(st.received_msg_ids, msg.client_msg_id)
       THEN [st EXCEPT !.seen = Seen("duplicate", entry, FALSE, NoRow)]
       ELSE
         LET gated == [st EXCEPT
                 !.received_msg_ids = @ \cup {msg.client_msg_id},
                 !.recvNewMessage[msg.client_msg_id] =
                     IF DeliversNewMessage(msg) THEN @ + 1 ELSE @,
                 !.friend_syncs[msg.client_msg_id] =
                     IF entry.is_notification
                        /\ IsFriendNotification(msg.content_type)
                     THEN @ + 1 ELSE @]
         IN IF UpdatesConversation(msg)
            THEN on_new_message(
                   [gated EXCEPT
                      !.on_new_message_calls[msg.client_msg_id] = @ + 1],
                   entry, srv)
            ELSE [gated EXCEPT !.seen = Seen("typing", entry, FALSE, NoRow)]

RECURSIVE HandleEntries(_, _, _)
HandleEntries(st, entries, srv) ==
    IF entries = <<>> THEN st
    ELSE HandleEntries(HandleEntry(st, Head(entries), srv), Tail(entries), srv)

IsRegular(entry) == ~entry.is_notification

IsNotificationEntry(entry) == entry.is_notification

\* handle_push_message: the msgs map first, then the notification_msgs map
handle_push_message(st, frame, srv) ==
    HandleEntries(
      HandleEntries(st, SelectSeq(frame, IsRegular), srv),
      SelectSeq(frame, IsNotificationEntry), srv)


(***************************************************************************)
(* Operations                                                              *)
(***************************************************************************)
NoReplies ==
    [all_ids |-> {}, shape |-> [is_pinned |-> FALSE, min_seq |-> 0],
     seqs |-> [c \in {} |-> SeqInfo(0, 0)],
     incr |-> IncrementalConversationResp(FALSE, 0, "", {}, {}, {}),
     fail |-> {}, db |-> NoDbError]

\* last: the operation that ran last, with its inputs; run counts how many
\* times in a row it ran with the same inputs, pre_ids the conversation IDs
\* the table held when it started
LastOp(op, frame, srv, seen, ok, path, run, preIds, events) ==
    [op |-> op, frame |-> frame, srv |-> srv, seen |-> seen, ok |-> ok,
     path |-> path, run |-> run, pre_ids |-> preIds, events |-> events,
     args |-> <<>>]

\* a call of a client method with its arguments, its result and the reply
\* or input that decided its path
LastCall(op, args, ok, path) ==
    [LastOp(op, <<>>, NoReplies, NothingSeen, ok, path, 1, {}, <<>>)
       EXCEPT !.args = args]

NoOp == LastOp("init", <<>>, NoReplies, NothingSeen, FALSE, "", 0, {}, <<>>)

EmptyTable == [c \in {} |-> NoRow]

\* the tasks right after connect(): the reader between two messages, the
\* start-up passes not yet landed, the heartbeat ticking
TasksAtRest ==
    [reader |-> "idle", sync |-> "spawned", friend_sync |-> "spawned",
     heartbeat |-> "ticking"]

\* no task exists before connect()
NoTasks ==
    [reader |-> "none", sync |-> "none", friend_sync |-> "none",
     heartbeat |-> "none"]

\* conversation IDs are strings; Spelling gives the characters of each ID
\* in use (conversation IDs of group chats are "gi_" and the group ID)
GroupConvIds == {"gi_g-1", "gi_g_1"}

Spelling ==
    ("c1" :> <<"c", "1">>) @@ ("c2" :> <<"c", "2">>)
       @@ ("gi_g-1" :> <<"g", "i", "_", "g", "-", "1">>)
       @@ ("gi_g_1" :> <<"g", "i", "_", "g", "_", "1">>)

\* char::is_ascii_alphanumeric
is_ascii_alphanumeric(c) ==
    c \in {"0", "1", "2", "3", "4", "5", "6", "7", "8", "9",
           "a", "b", "c", "d", "e", "f", "g", "h", "i", "j", "k", "l", "m",
           "n", "o", "p", "q", "r", "s", "t", "u", "v", "w", "x", "y", "z",
           "A", "B", "C", "D", "E", "F", "G", "H", "I", "J", "K", "L", "M",
           "N", "O", "P", "Q", "R", "S", "T", "U", "V", "W", "X", "Y", "Z"}

\* MessageStore::table_name: msg_ and the ID with every character that is
\* not ASCII alphanumeric replaced by _
table_name(conversation_id) ==
    LET chars == Spelling[conversation_id]
    IN <<"m", "s", "g", "_">>
         \o [i \in 1..Len(chars) |->
               IF is_ascii_alphanumeric(chars[i]) THEN chars[i] ELSE "_"]

\* message_store is None until connect() opens it; rows maps
\* <<table, client_msg_id>> to the chat-log row of that table
MessageStore(open, rows) == [open |-> open, rows |-> rows]

\* what connect() leaves besides the tasks: the message store open, the
\* listener told that the session is up, no HTTP call of a client method yet
AfterConnect ==
    /\ message_store = MessageStore(TRUE, <<>>)
    /\ http_requests = <<>>
    /\ connection_status = <<TRUE>>
    /\ kicked_offline = 0
    /\ writer = TRUE
    /\ sent_frames = 0
    /\ friends = <<>>
    /\ friend_ver = NoVersionSync
    /\ overlap = <<>>
    /\ transport = "open"

\* the conversation path leaves the message store, the client's HTTP calls
\* and the connection listener alone
SessionUntouched ==
    UNCHANGED <<message_store, http_requests, connection_status,
                   kicked_offline,
                   writer,
                   sent_frames,
                   friends,
                   friend_ver,
                   overlap,
                   transport>>

\* an operation that runs from its first line to its return
RunsToReturn == UNCHANGED <<pc, total_unread>>

\* the client after new() and connect(), before any frame or pass
InitClient ==
    /\ convs = EmptyTable
    /\ ver = NoVersionSync
    /\ uuidN = 0
    /\ received_msg_ids = {}
    /\ recvNewMessage = [m \in MsgIds |-> 0]
    /\ last = NoOp
    /\ pc = TasksAtRest
    /\ total_unread = 0
    /\ AfterConnect

NeedsReplies(frame) ==
    \E i \in 1..Len(frame) :
        /\ frame[i].is_notification
        /\ IsConversationNotification(frame[i].msg.content_type)

\* the reader task handles one binary frame with reqIdentifier 2001
PushFrame(frame, srv) ==
    \E r \in {handle_push_message(
                 ClientState(convs, ver, uuidN, received_msg_ids,
                             recvNewMessage, NothingSeen), frame, srv)} :
       /\ r.uuidN <= MaxUuid
       /\ r.ver.version <= MaxVersion
       /\ \A c \in DOMAIN r.convs : r.convs[c].unread_count <= MaxUnread
       /\ convs' = r.convs
       /\ ver' = r.ver
       /\ uuidN' = r.uuidN
       /\ received_msg_ids' = r.received_msg_ids
       /\ recvNewMessage' = r.recvNewMessage
       /\ last' = [LastOp("push", frame, srv, r.seen, TRUE, "",
                          IF last.op = "push" /\ last.frame = frame
                          THEN 2 ELSE 1, DOMAIN convs, <<>>)
                     EXCEPT !.args = <<r.friend_syncs,
                                       r.on_new_message_calls>>]
       /\ SessionUntouched

\* one call of incr_sync_conversations, run to its return; run is 2 when
\* the pass repeats the previous one against an unchanged server
SyncPass(srv, run) ==
    \E r \in {incr_sync_conversations(convs, ver, uuidN, srv)} :
       /\ r.uuidN <= MaxUuid
       /\ r.ver.version <= MaxVersion
       /\ convs' = r.convs
       /\ ver' = r.ver
       /\ uuidN' = r.uuidN
       /\ UNCHANGED <<received_msg_ids, recvNewMessage>>
       /\ last' = [LastOp("sync", <<>>, srv, NothingSeen, r.ok, r.path,
                          run, DOMAIN convs, r.events)
                     EXCEPT !.args = <<r.unread_by_seq>>]
       /\ SessionUntouched


(***************************************************************************)
(* SpecPush: on_new_message, one pushed message at a time, on every table  *)
(* a pass or an earlier push can have left                                 *)
(***************************************************************************)
\* (send_time, create_time) of a message
Times == {<<0, 1>>, <<1, 2>>, <<2, 1>>}

\* rows as a sync pass leaves them, and a row as a push leaves it
SyncedRows == {LocalConversation(u, m, 0, "", 0, FALSE) : u \in 0..1, m \in 0..MaxSeq}

PushedRows == {LocalConversation(1, MaxSeq, MaxSeq, "hi", 1, FALSE)}

TablesOver(rows) ==
    UNION {[S -> rows] : S \in SUBSET ConvIds}

PushInitTables ==
    {t \in TablesOver(SyncedRows \cup PushedRows) :
        "c2" \in DOMAIN t => t["c2"] = LocalConversation(0, 0, 0, "", 0, FALSE)}

\* the replies of the pass a conversation notification starts
PushReplies ==
    {[NoReplies EXCEPT !.all_ids = ids,
                       !.seqs = [c \in ids |-> SeqInfo(MaxSeq, 0)]] :
        ids \in {{"c1"}, {"c1", "c2"}}}

SingleMsgs ==
    {MsgData("m1", seq, sender, ct, opt, tm[1], tm[2]) :
        seq \in 0..MaxSeq, sender \in {SelfUser, PeerUser},
        ct \in ContentTypes, opt \in UnreadOptions, tm \in Times}

SingleFrames ==
    {<<FrameEntry("c1", m, n)>> : m \in SingleMsgs, n \in BOOLEAN}

InitPush ==
    /\ convs \in PushInitTables
    /\ ver = NoVersionSync
    /\ uuidN = 0
    /\ received_msg_ids = {}
    /\ recvNewMessage = [m \in MsgIds |-> 0]
    /\ last = NoOp
    /\ pc = TasksAtRest
    /\ total_unread = 0
    /\ AfterConnect

\* the first frame of the session
ReceiveMessage ==
    /\ last.op = "init"
    /\ \E frame \in SingleFrames :
         \E srv \in IF NeedsReplies(frame) THEN PushReplies ELSE {NoReplies} :
           PushFrame(frame, srv)
    /\ RunsToReturn

NextPush == ReceiveMessage

SpecPush == InitPush /\ [][NextPush]_vars

\* the message on_new_message applied last, and the row it wrote
AppliedMsg == last.seen.entry.msg

AppliedConv == last.seen.entry.conversation_id

\* on_new_message applied the message; last.seen.pre is the row it read, or
\* the zero row when the conversation was new
Applied ==
    /\ last.op = "push"
    /\ last.seen.how = "applied"

AppliedToRow == Applied /\ last.seen.had_row

CountsAsUnread ==
    /\ AppliedMsg.send_id # SelfUser
    /\ AppliedMsg.unread_count_opt \in {"absent", "true"}
    /\ AppliedMsg.seq > last.seen.pre.max_seq

C11_TypingKeepsTable ==
    [][(/\ last'.op = "push"
        /\ \A i \in 1..Len(last'.frame) :
              last'.frame[i].msg.content_type = TYPING)
          => convs' = convs]_vars

\* a typing message of the notification_msgs map was handled on a table
\* that holds its conversation
C11_Witness ==
    /\ last.op = "push"
    /\ last.seen.how = "typing"
    /\ last.seen.entry.is_notification
    /\ last.seen.entry.msg.send_id = PeerUser
    /\ last.seen.entry.conversation_id \in DOMAIN convs

\* C2: a message whose seq is less than or equal to the max_seq the row had
\* before it was applied leaves unread_count unchanged.
C2_OldSeqNotCounted ==
    (AppliedToRow /\ AppliedMsg.seq <= last.seen.pre.max_seq) =>
        convs[AppliedConv].unread_count = last.seen.pre.unread_count


(***************************************************************************)
(* SpecFrames: the reader task from construction, over frames of one or    *)
(* two messages of conversation c1 whose ids repeat                        *)
(***************************************************************************)
\* a message of the msgs map from the peer
PeerMsg(id, seq, contentType) ==
    FrameEntry("c1", MsgData(id, seq, PeerUser, contentType, "absent", 1, 2),
               FALSE)

FrameEntries ==
    {PeerMsg(id, seq, TEXT) : id \in MsgIds, seq \in {1, MaxSeq}}
    \cup {FrameEntry("c1", MsgData(id, MaxSeq, PeerUser, TEXT, "absent",
                                   2, 2), FALSE) : id \in MsgIds}
    \cup {PeerMsg(id, 1, TYPING) : id \in MsgIds}
    \cup {FrameEntry("c1", MsgData(id, 1, PeerUser, FRIEND_ADDED_NOTIFICATION,
                                   "absent", 1, 2), TRUE) : id \in MsgIds}
    \cup {FrameEntry("c1", MsgData(id, 1, PeerUser,
                                   CONVERSATION_CHANGE_NOTIFICATION,
                                   "absent", 1, 2), TRUE) : id \in MsgIds}

Frames ==
    {<<e>> : e \in FrameEntries}
    \cup {<<e1, e2>> : e1 \in FrameEntries, e2 \in FrameEntries}

ReceiveFrame ==
    /\ \E frame \in Frames :
         \E srv \in IF NeedsReplies(frame) THEN PushReplies ELSE {NoReplies} :
           PushFrame(frame, srv)
    /\ RunsToReturn

NextFrames == ReceiveFrame

SpecFrames == InitClient /\ [][NextFrames]_vars

FrameIds(frame) == {frame[i].msg.client_msg_id : i \in 1..Len(frame)}

\* C3: over any sequence of push frames on_recv_new_message is invoked at
\* most once for each client_msg_id, every client_msg_id of a processed frame
\* is in received_msg_ids when the frame has been handled, and no id ever
\* leaves received_msg_ids.
C3_DeliveredOnce ==
    [][/\ \A m \in MsgIds : recvNewMessage'[m] <= 1
       /\ received_msg_ids \subseteq received_msg_ids'
       /\ FrameIds(last'.frame) \subseteq received_msg_ids']_vars

\* the id m1 arrived in two frames, was delivered once and is in the guard
C3_Witness ==
    /\ last.op = "push" /\ last.run = 1
    /\ Len(last.frame) = 1
    /\ last.seen.how = "duplicate"
    /\ last.seen.entry.msg.client_msg_id = "m1"
    /\ last.seen.entry.msg.content_type = TEXT
    /\ recvNewMessage["m1"] = 1
    /\ "m1" \in received_msg_ids

\* C17: latest_msg_send_time of a conversation never decreases across
\* successive on_new_message updates, in whatever order the pushed messages
\* arrive (frames that start no sync pass, so that only on_new_message
\* writes the row)
C17_SendTimeNeverDecreases ==
    [][(last'.op = "push" /\ ~NeedsReplies(last'.frame))
       => \A c \in DOMAIN convs \cap DOMAIN convs' :
            convs'[c].latest_msg_send_time >= convs[c].latest_msg_send_time]_vars

\* the entries of a frame that are friend notifications seen for the first
\* time: in notification_msgs, friend content type, an id the dedup guard
\* does not hold and that no other entry of the frame carries
NewFriendNotifications(frame, ids) ==
    {i \in 1..Len(frame) :
        /\ frame[i].is_notification
        /\ frame[i].msg.content_type = FRIEND_ADDED_NOTIFICATION
        /\ frame[i].msg.client_msg_id \notin ids
        /\ \A j \in 1..Len(frame) :
              j # i => frame[j].msg.client_msg_id # frame[i].msg.client_msg_id}

C4_ReplayKeepsTable ==
    [][(last'.op = "push" /\ last'.run = 2) => convs' = convs]_vars

\* a frame of two counted messages has been handled twice in a row
C4_Witness ==
    /\ last.op = "push" /\ last.run = 2
    /\ Len(last.frame) = 2
    /\ \A i \in 1..2 : last.frame[i].msg.content_type = TEXT
    /\ FrameIds(last.frame) = MsgIds
    /\ "c1" \in DOMAIN convs
    /\ convs["c1"].unread_count = 2


(***************************************************************************)
(* SpecSync: incr_sync_conversations on every table and version row a      *)
(* session can have left, once and then once more against the same server  *)
(***************************************************************************)
SyncInitTables ==
    {t \in TablesOver({LocalConversation(0, 0, 0, "", 0, FALSE),
                       LocalConversation(1, MaxSeq, MaxSeq, "hi", 1, FALSE)}) :
        "c2" \in DOMAIN t => t["c2"] = LocalConversation(0, 0, 0, "", 0, FALSE)}

\* a response with full = true carries no insert, update or delete
SyncIncrReplies ==
    {r \in IncrReplies :
        r.full => (r.insert = {} /\ r.update = {} /\ r.delete = {})}

SyncSeqsReplies ==
    UNION {[S -> {SeqInfo(MaxSeq, 0), SeqInfo(0, 1)}] : S \in SUBSET ConvIds}

SyncReplies ==
    {srv \in [all_ids : SUBSET ConvIds,
              shape : {s \in PayloadShapes : s.min_seq = 0},
              seqs : SyncSeqsReplies, incr : SyncIncrReplies,
              fail : FailSets, db : {NoDbError}] : TRUE}

InitSync ==
    /\ convs \in SyncInitTables
    /\ \/ ver = NoVersionSync /\ uuidN = 0
       \/ ver = LocalVersionSync(1, UuidV4(1)) /\ uuidN = 1
    /\ received_msg_ids = {}
    /\ recvNewMessage = [m \in MsgIds |-> 0]
    /\ last = NoOp
    /\ pc = TasksAtRest
    /\ total_unread = 0
    /\ AfterConnect

SyncFirst ==
    /\ last.op = "init"
    /\ \E srv \in SyncReplies : SyncPass(srv, 1)
    /\ RunsToReturn

\* the replies of a server whose state has not changed since srv was
\* drawn: the same conversations, IDs and seqs, and nothing inserted,
\* updated or deleted since the version it handed out
UnchangedReplies(srv) ==
    {[srv EXCEPT !.incr = IncrementalConversationResp(
                     f, srv.incr.version, srv.incr.version_id, {}, {}, {})] :
        f \in BOOLEAN}

SyncAgain ==
    /\ last.op = "sync" /\ last.run = 1 /\ last.ok
    /\ \E srv \in UnchangedReplies(last.srv) : SyncPass(srv, 2)
    /\ RunsToReturn

NextSync == SyncFirst \/ SyncAgain

SpecSync == InitSync /\ [][NextSync]_vars

\* C5: a second successful pass against an unchanged server leaves the
\* table and the version row as the first pass left them.
C5_SecondPassChangesNothing ==
    [][(last'.op = "sync" /\ last'.run = 2 /\ last'.ok)
          => (convs' = convs /\ ver' = ver)]_vars

\* the pair a pass that called get_incremental_conversations is expected to
\* persist, from the row it read and the response
ExpectedVersion(v, resp) ==
    LocalVersionSync(IF resp.version > 0 THEN resp.version ELSE v.version + 1,
                     resp.version_id)

\* C6: a successful pass that called get_incremental_conversations and got
\* a non-empty versionID leaves the version row at the returned pair, with
\* previous version + 1 for a returned version of 0.
C6_VersionFollowsServer ==
    [][(/\ last'.op = "sync" /\ last'.ok
        /\ last'.path \in {"incremental", "server_full"}
        /\ last'.srv.incr.version_id # "")
          => ver' = ExpectedVersion(ver, last'.srv.incr)]_vars

\* C7: a successful incremental pass (full = false) removes a conversation
\* only if delete[] lists it, and a conversation in none of insert[],
\* update[] and delete[] is still there with the fields the response does
\* not carry seqs for (all but unread_count and max_seq) as they were.
C7_OnlyListedDeleted ==
    [][(last'.op = "sync" /\ last'.ok /\ last'.path = "incremental")
          => \A c \in DOMAIN convs :
               /\ c \notin DOMAIN convs' => c \in last'.srv.incr.delete
               /\ c \notin (last'.srv.incr.insert \cup last'.srv.incr.update
                            \cup last'.srv.incr.delete)
                    => /\ c \in DOMAIN convs'
                       /\ [convs'[c] EXCEPT !.unread_count = 0, !.max_seq = 0]
                          = [convs[c] EXCEPT !.unread_count = 0, !.max_seq = 0]
       ]_vars

\* C13: a pass that succeeds emits one on_sync_server_start, then
\* on_sync_server_progress 10, 50, 80 and 100 in that order, then one
\* on_sync_server_finish, and nothing else, whatever path it took.
C13_SuccessfulPassEvents ==
    (last.op = "sync" /\ last.ok) =>
        \E reinstalled \in BOOLEAN :
            last.events = <<on_sync_server_start(reinstalled),
                            on_sync_server_progress(10),
                            on_sync_server_progress(50),
                            on_sync_server_progress(80),
                            on_sync_server_progress(100),
                            on_sync_server_finish(reinstalled)>>

\* the HTTP calls a pass makes on each path before the trailing
\* reconciliation, given that at most one call fails
CallsOnPath(path) ==
    CASE path = "reinstalled" -> {"all", "seqs"}
      [] path = "ids_differ" -> {"ids", "all", "seqs"}
      [] path = "no_version" -> {"ids", "all", "seqs"}
      [] path = "server_full" -> {"incr", "all", "seqs"}
      [] path = "incremental" -> {"incr", "seqs"}
      [] OTHER -> {}

Emitted(event) == \E i \in 1..Len(last.events) : last.events[i] = event

\* C14: a pass in which an HTTP call failed emits on_sync_server_failed,
\* returns an error and emits no on_sync_server_finish.
C14_FailedCallFailsPass ==
    (last.op = "sync" /\ last.srv.fail \cap CallsOnPath(last.path) # {}) =>
        /\ ~last.ok
        /\ \E r \in BOOLEAN : Emitted(on_sync_server_failed(r))
        /\ \A r \in BOOLEAN : ~Emitted(on_sync_server_finish(r))

\* C15: a successful pass that starts with no version row, on an empty
\* table or with the local ID set equal to the server's, ends with the
\* version row equal to the (version, versionID) of the
\* get_full_conversation_ids reply
C15_NoVersionStoresIdsVersion ==
    [][(/\ last'.op = "sync"
        /\ last'.ok
        /\ ~ver.exists
        /\ last'.path \in {"reinstalled", "no_version"})
       => ver' = LocalVersionSync(FullConversationIdsResp(last'.srv).version,
                                  FullConversationIdsResp(last'.srv).version_id)]_vars

FullSyncPaths == {"reinstalled", "ids_differ", "server_full"}

\* C8: after a successful full sync the local conversation IDs are the IDs
\* get_all_conversations returned.
C8_FullSyncAlignsIds ==
    (last.op = "sync" /\ last.ok /\ last.path \in FullSyncPaths)
        => DOMAIN convs = last.srv.all_ids

\* a full sync that deleted c1 and inserted c2
C8_Witness ==
    /\ last.op = "sync" /\ last.ok /\ last.path \in FullSyncPaths
    /\ last.pre_ids = {"c1"}
    /\ last.srv.all_ids = {"c2"}
    /\ DOMAIN convs = {"c2"}


(***************************************************************************)
(* Spec: the client from construction; sync passes (the pass connect()     *)
(* starts and any later one) and pushed frames in any order, each run to   *)
(* its end before the next starts                                          *)
(***************************************************************************)
SessionReplies ==
    {[all_ids |-> ids, shape |-> [is_pinned |-> FALSE, min_seq |-> m],
      seqs |-> s, incr |-> i, fail |-> {}, db |-> NoDbError] :
        ids \in {{"c1"}, ConvIds}, m \in {0, 1},
        s \in {[c \in {} |-> SeqInfo(0, 0)],
               [c \in {"c1"} |-> SeqInfo(0, 0)],
               [c \in {"c1"} |-> SeqInfo(MaxSeq, 0)]},
        i \in {IncrementalConversationResp(TRUE, 2, "b", {}, {}, {}),
               IncrementalConversationResp(FALSE, 2, "b", {}, {"c1"}, {}),
               IncrementalConversationResp(FALSE, 0, "b", {"c2"}, {}, {"c1"})}}

SessionFrames ==
    {<<e>> : e \in {x \in FrameEntries : x.msg.content_type # TYPING}}

Sync ==
    /\ \E srv \in SessionReplies : SyncPass(srv, 1)
    /\ RunsToReturn

Push ==
    /\ \E frame \in SessionFrames :
         \E srv \in IF NeedsReplies(frame) THEN PushReplies ELSE {NoReplies} :
           PushFrame(frame, srv)
    /\ RunsToReturn

Init == InitClient

Next == Sync \/ Push

Spec == Init /\ [][Next]_vars

\* C16: the version of the local_version_sync row never decreases: every
\* successful sync pass that replaces the row stores a version greater than
\* or equal to the one it replaces
C16_VersionNeverDecreases ==
    [][(/\ last'.op = "sync"
        /\ last'.ok
        /\ ver.exists
        /\ ver'.exists)
       => ver'.version >= ver.version]_vars

\* C9: every row of local_conversations has unread_count >= 0 and
\* max_seq >= min_seq.
C9_RowsWellFormed ==
    \A c \in DOMAIN convs :
        /\ convs[c].unread_count >= 0
        /\ convs[c].max_seq >= convs[c].min_seq


(***************************************************************************)
(* SpecConc: the tasks connect() spawns.  The start-up task runs           *)
(* incr_sync_conversations once; the reader task handles pushed messages   *)
(* and, in on_new_message, awaits the upsert, then get_total_unread_count, *)
(* then the listener.  The two tasks share the table without a lock, so    *)
(* the pass can land between any two awaits of the reader.                 *)
(***************************************************************************)
ConcFrames ==
    {<<PeerMsg(id, seq, TEXT)>> : id \in MsgIds, seq \in {1, MaxSeq}}

\* a session starts on the table the previous session left
InitConc ==
    /\ convs \in SyncInitTables
    /\ \/ ver = NoVersionSync /\ uuidN = 0
       \/ ver = LocalVersionSync(1, UuidV4(1)) /\ uuidN = 1
    /\ received_msg_ids = {}
    /\ recvNewMessage = [m \in MsgIds |-> 0]
    /\ last = NoOp
    /\ pc = TasksAtRest
    /\ total_unread = 0
    /\ AfterConnect

\* the start-up pass writes the table
StartupSync ==
    /\ pc.sync = "spawned"
    /\ \E srv \in SessionReplies : SyncPass(srv, 1)
    /\ pc' = [pc EXCEPT !.sync = "done"]
    /\ UNCHANGED total_unread

\* on_new_message up to and including upsert_conversation
OnNewMessageUpsert ==
    /\ pc.reader = "idle"
    /\ \E frame \in ConcFrames : PushFrame(frame, NoReplies)
    /\ last'.seen.how = "applied"
    /\ pc' = [pc EXCEPT !.reader = "upserted"]
    /\ UNCHANGED total_unread

\* the message was a duplicate: handle_push_message skips it
SkipDuplicate ==
    /\ pc.reader = "idle"
    /\ \E frame \in ConcFrames : PushFrame(frame, NoReplies)
    /\ last'.seen.how = "duplicate"
    /\ RunsToReturn

\* let Ok(total_unread) = self.get_total_unread_count().await
OnNewMessageReadTotal ==
    /\ pc.reader = "upserted"
    /\ total_unread' = get_total_unread_count(convs)
    /\ pc' = [pc EXCEPT !.reader = "read"]
    /\ UNCHANGED <<convs, ver, uuidN, received_msg_ids, recvNewMessage, last>>
    /\ SessionUntouched

\* listener.on_total_unread_message_count_changed(total_unread).await
OnNewMessageEmitTotal ==
    /\ pc.reader = "read"
    /\ pc' = [pc EXCEPT !.reader = "idle"]
    /\ UNCHANGED <<convs, ver, uuidN, received_msg_ids, recvNewMessage, last,
                   total_unread>>
    /\ SessionUntouched

NextConc ==
    \/ StartupSync
    \/ OnNewMessageUpsert
    \/ SkipDuplicate
    \/ OnNewMessageReadTotal
    \/ OnNewMessageEmitTotal

SpecConc == InitConc /\ [][NextConc]_vars

\* C10: the value on_new_message passes to
\* on_total_unread_message_count_changed is the sum of unread_count over the
\* table at the moment the listener is invoked, also with the start-up pass
\* running beside the reader task.
C10_EmittedTotalIsCurrent ==
    [][(pc.reader = "read" /\ pc'.reader = "idle")
          => total_unread = get_total_unread_count(convs)]_vars


(***************************************************************************)
(* SpecRace: the same two tasks, with on_new_message split at the await    *)
(* between get_conversation_by_id and upsert_conversation.  last.seen      *)
(* holds the row the reader read until it writes.                          *)
(***************************************************************************)
\* handle_push_message passes the dedup gate and handle_single_message, and
\* on_new_message reads the conversation's row
OnNewMessageRead ==
    /\ pc.reader = "idle"
    /\ \E frame \in ConcFrames :
         LET entry == frame[1]
             id == entry.conversation_id
             hasRow == id \in DOMAIN convs
         IN /\ ~is_duplicate_message(received_msg_ids, entry.msg.client_msg_id)
            /\ received_msg_ids' =
                  received_msg_ids \cup {entry.msg.client_msg_id}
            /\ recvNewMessage' =
                  [recvNewMessage EXCEPT ![entry.msg.client_msg_id] =
                      IF DeliversNewMessage(entry.msg) THEN @ + 1 ELSE @]
            /\ last' = LastOp("push", frame, NoReplies,
                              Seen("reading", entry, hasRow,
                                   IF hasRow THEN convs[id] ELSE NoRow),
                              TRUE, "", 1, DOMAIN convs, <<>>)
    /\ pc' = [pc EXCEPT !.reader = "reading"]
    /\ UNCHANGED <<convs, ver, uuidN, total_unread>>
    /\ SessionUntouched

\* on_new_message builds the row from what it read and upserts it
OnNewMessageWrite ==
    /\ pc.reader = "reading"
    /\ \E conv \in {UpdatedConversation(last.seen.had_row, last.seen.pre,
                                        last.seen.entry.msg,
                                        last.seen.entry.is_notification)} :
         /\ conv.unread_count <= MaxUnread
         /\ convs' = upsert_conversation(convs, last.seen.entry.conversation_id,
                                         conv)
    /\ last' = [last EXCEPT !.seen.how = "applied"]
    /\ pc' = [pc EXCEPT !.reader = "idle"]
    /\ UNCHANGED <<ver, uuidN, received_msg_ids, recvNewMessage, total_unread>>
    /\ SessionUntouched

\* the start-up pass writes the table while the reader is anywhere
SyncLands ==
    /\ pc.sync = "spawned"
    /\ \E srv \in SessionReplies :
         \E r \in {incr_sync_conversations(convs, ver, uuidN, srv)} :
            /\ r.ok
            /\ r.uuidN <= MaxUuid
            /\ r.ver.version <= MaxVersion
            /\ convs' = r.convs
            /\ ver' = r.ver
            /\ uuidN' = r.uuidN
    /\ pc' = [pc EXCEPT !.sync = "done"]
    /\ UNCHANGED <<received_msg_ids, recvNewMessage, last, total_unread>>
    /\ SessionUntouched

NextRace == OnNewMessageRead \/ OnNewMessageWrite \/ SyncLands

SpecRace == InitConc /\ [][NextRace]_vars

\* the row on_new_message read is still the row of its conversation
ReadIsCurrent ==
    LET id == last.seen.entry.conversation_id
    IN IF last.seen.had_row
       THEN id \in DOMAIN convs /\ convs[id] = last.seen.pre
       ELSE id \notin DOMAIN convs

\* C12: when on_new_message writes a conversation's row, no sync pass has
\* written that row since on_new_message read it, so the write overwrites
\* no update it has not seen.
C12_RowWritesSerialized ==
    [][(pc.reader = "reading" /\ pc'.reader = "idle") => ReadIsCurrent]_vars


(***************************************************************************)
(* SpecRevoke: revoke_message, one call on every message store of two      *)
(* rows                                                                    *)
(***************************************************************************)
\* openim_protocol::constant::MSG_STATUS_SEND_SUCCESS
MSG_STATUS_SEND_SUCCESS == "SEND_SUCCESS"

\* the columns of LocalChatLog that revoke_message reads; seq is an i64
LocalChatLog(seq, status, send_id, is_read) ==
    [seq |-> seq, status |-> status, send_id |-> send_id, is_read |-> is_read]

\* MessageStore::get_by_client_msg_id: the row of the conversation's table,
\* or None
get_by_client_msg_id(store, conversation_id, client_msg_id) ==
    IF <<table_name(conversation_id), client_msg_id>> \in DOMAIN store.rows
    THEN [found |-> TRUE,
          msg |-> store.rows[<<table_name(conversation_id), client_msg_id>>]]
    ELSE [found |-> FALSE, msg |-> LocalChatLog(0, "", "", FALSE)]

\* POST {api_base_url}/msg/revoke_msg
RevokeRequest(conversation_id, seq) ==
    [url |-> "/msg/revoke_msg", conversationID |-> conversation_id,
     seq |-> seq, userID |-> SelfUser]

\* the server's answer to the revoke request: 2xx with errCode 0, a non-2xx
\* status, or 2xx with a non-zero errCode
RevokeReplies == {"ok", "http_error", "err_code"}

\* if msg.seq == 0 { return Err }
SyncedToServer(msg) == msg.seq # 0

\* revoke_message: Ok or Err, and the requests it sent
revoke_message(store, conversation_id, client_msg_id, reply) ==
    LET got == get_by_client_msg_id(store, conversation_id, client_msg_id)
        failed == [ok |-> FALSE, sent |-> <<>>]
    IN IF ~store.open THEN failed
       ELSE IF ~got.found THEN failed
       ELSE IF ~SyncedToServer(got.msg) THEN failed
       ELSE IF got.msg.status # MSG_STATUS_SEND_SUCCESS THEN failed
       ELSE [ok |-> reply = "ok",
             sent |-> <<RevokeRequest(conversation_id, got.msg.seq)>>]

StoredRows ==
    {LocalChatLog(seq, status, "peer", FALSE) :
        seq \in {-1, 0, 1},
        status \in {"SENDING", MSG_STATUS_SEND_SUCCESS}}

StoreKeys == {<<table_name("c1"), m>> : m \in MsgIds}

InitRevoke ==
    /\ convs = EmptyTable
    /\ ver = NoVersionSync
    /\ uuidN = 0
    /\ received_msg_ids = {}
    /\ recvNewMessage = [m \in MsgIds |-> 0]
    /\ last = NoOp
    /\ total_unread = 0
    /\ \E open \in BOOLEAN :
         /\ message_store \in
               {MessageStore(open, rows) :
                   rows \in UNION {[K -> StoredRows] : K \in SUBSET StoreKeys}}
         /\ pc = IF open THEN TasksAtRest ELSE NoTasks
         /\ connection_status = IF open THEN <<TRUE>> ELSE <<>>
    /\ http_requests = <<>>
    /\ kicked_offline = 0
    /\ writer = message_store.open
    /\ sent_frames = 0
    /\ friends = <<>>
    /\ friend_ver = NoVersionSync
    /\ overlap = <<>>
    /\ transport = IF message_store.open THEN "open" ELSE "none"

RevokeMessage ==
    /\ last.op = "init"
    /\ \E conversation_id \in ConvIds, client_msg_id \in MsgIds,
          reply \in RevokeReplies :
         \E r \in {revoke_message(message_store, conversation_id,
                                  client_msg_id, reply)} :
            /\ http_requests' = http_requests \o r.sent
            /\ last' = LastCall("revoke", <<conversation_id, client_msg_id>>,
                                r.ok, reply)
    /\ UNCHANGED <<convs, ver, uuidN, received_msg_ids, recvNewMessage, pc,
                   total_unread, message_store, connection_status,
                   kicked_offline,
                   writer,
                   sent_frames,
                   friends,
                   friend_ver,
                   overlap,
                   transport>>

NextRevoke == RevokeMessage

SpecRevoke == InitRevoke /\ [][NextRevoke]_vars

\* the call's row has seq > 0 and the server-received status
Revocable(store, args) ==
    /\ store.open
    /\ <<table_name(args[1]), args[2]>> \in DOMAIN store.rows
    /\ store.rows[<<table_name(args[1]), args[2]>>].seq > 0
    /\ store.rows[<<table_name(args[1]), args[2]>>].status
          = MSG_STATUS_SEND_SUCCESS

WsText(parses, err_code) ==
    [kind |-> "text", parses |-> parses, err_code |-> err_code]

WsItem(kind) == [kind |-> kind, parses |-> FALSE, err_code |-> 0]

FirstItems ==
    {WsText(TRUE, 0), WsText(TRUE, 1), WsText(FALSE, 0),
     WsItem("binary"), WsItem("error"), WsItem("none")}

\* connect_async(&url) fails: there is no channel and no first item
NoChannel == WsItem("no_channel")

\* the steps of connect() after the handshake that can return Err
ConnectSteps == {"db", "friend_syncer", "message_store"}

\* variant: a connect that takes any first item for a successful handshake
HandshakeAlwaysAccepted(first) == TRUE

\* if let Some(Ok(WsMessage::Text(text))) = read.next().await, parsed, with
\* err_code == 0
HandshakeAccepted(first) ==
    first.kind = "text" /\ first.parses /\ first.err_code = 0

\* connect(): Ok or Err, the tasks it spawned, whether message_store is
\* set, and the listener calls it made; failed_step is the step that
\* returns Err, "none" when every step succeeds
connect(first, failed_step) ==
    IF first = NoChannel
    THEN [ok |-> FALSE, pc |-> NoTasks, store_open |-> FALSE,
          status |-> <<>>, writer |-> FALSE]
    ELSE IF ~HandshakeAccepted(first)
    THEN [ok |-> FALSE, pc |-> NoTasks, store_open |-> FALSE,
          status |-> <<>>, writer |-> TRUE]
    ELSE IF failed_step = "db"
    THEN [ok |-> FALSE, pc |-> NoTasks, store_open |-> FALSE,
          status |-> <<TRUE>>, writer |-> TRUE]
    ELSE IF failed_step = "friend_syncer"
    THEN [ok |-> FALSE, pc |-> [NoTasks EXCEPT !.sync = "spawned"],
          store_open |-> FALSE, status |-> <<TRUE>>, writer |-> TRUE]
    ELSE IF failed_step = "message_store"
    THEN [ok |-> FALSE,
          pc |-> [NoTasks EXCEPT !.sync = "spawned",
                                 !.friend_sync = "spawned"],
          store_open |-> FALSE, status |-> <<TRUE>>, writer |-> TRUE]
    ELSE [ok |-> TRUE, pc |-> TasksAtRest, store_open |-> TRUE,
          status |-> <<TRUE>>, writer |-> TRUE]

\* the client after new()
InitNew ==
    /\ convs = EmptyTable
    /\ ver = NoVersionSync
    /\ uuidN = 0
    /\ received_msg_ids = {}
    /\ recvNewMessage = [m \in MsgIds |-> 0]
    /\ last = NoOp
    /\ pc = NoTasks
    /\ total_unread = 0
    /\ message_store = MessageStore(FALSE, <<>>)
    /\ http_requests = <<>>
    /\ connection_status = <<>>
    /\ kicked_offline = 0
    /\ writer = FALSE
    /\ sent_frames = 0
    /\ friends = <<>>
    /\ friend_ver = NoVersionSync
    /\ overlap = <<>>
    /\ transport = "none"

Connect ==
    /\ ~writer
    /\ \E first \in FirstItems \cup {NoChannel},
          failed_step \in ConnectSteps \cup {"none"} :
         \E r \in {connect(first, failed_step)} :
            /\ pc' = r.pc
            /\ writer' = r.writer
            /\ message_store' = MessageStore(r.store_open, message_store.rows)
            /\ connection_status' = connection_status \o r.status
            /\ transport' = IF first = NoChannel THEN "none" ELSE "open"
            /\ last' = LastCall("connect", <<first, failed_step>>, r.ok, "")
    /\ UNCHANGED <<convs, ver, uuidN, received_msg_ids, recvNewMessage,
                   total_unread, http_requests,
                   kicked_offline,
                   sent_frames,
                   friends,
                   friend_ver,
                   overlap>>

\* handle_messages: a binary frame that carries a push
ReadPush ==
    /\ pc.reader = "idle"
    /\ \E frame \in SessionFrames :
         \E srv \in IF NeedsReplies(frame) THEN PushReplies ELSE {NoReplies} :
           PushFrame(frame, srv)
    /\ RunsToReturn

\* handle_messages: a text frame, a ping or a pong; the loop goes on
ReadIgnored ==
    /\ pc.reader = "idle"
    /\ \E item \in {"text", "ping", "pong"} :
         last' = LastCall("read", <<item>>, TRUE, item)
    /\ UNCHANGED <<convs, ver, uuidN, received_msg_ids, recvNewMessage, pc,
                   total_unread, message_store, http_requests,
                   connection_status,
                   kicked_offline,
                   writer,
                   sent_frames,
                   friends,
                   friend_ver,
                   overlap,
                   transport>>

\* handle_messages: a close frame or a transport error breaks the loop, the
\* end of the stream ends it; handle_messages returns Ok and the task ends.
\* A close frame and the end of the stream mean the connection is closed;
\* an Err item is read from a closed connection or from one that is still
\* open (a frame the protocol rejects)
ReadLast ==
    /\ pc.reader = "idle"
    /\ \E item \in {"close", "error", "none"}, closed \in BOOLEAN :
         /\ item \in {"close", "none"} => closed
         /\ transport' = IF closed THEN "closed" ELSE transport
         /\ last' = LastCall("read", <<item>>, TRUE, item)
    /\ pc' = [pc EXCEPT !.reader = "terminated"]
    /\ UNCHANGED <<convs, ver, uuidN, received_msg_ids, recvNewMessage,
                   total_unread, message_store, http_requests,
                   connection_status,
                   kicked_offline,
                   writer,
                   sent_frames,
                   friends,
                   friend_ver,
                   overlap>>

\* handle_messages: a binary frame with reqIdentifier WS_KICK_ONLINE_MSG;
\* handle_binary_message spawns on_kicked_offline and returns to the loop
ReadKick ==
    /\ pc.reader = "idle"
    /\ kicked_offline < MaxKicks
    /\ kicked_offline' = kicked_offline + 1
    /\ last' = LastCall("read", <<"kick">>, TRUE, "kick")
    /\ UNCHANGED <<convs, ver, uuidN, received_msg_ids, recvNewMessage, pc,
                   total_unread, message_store, http_requests,
                   connection_status,
                   writer,
                   sent_frames,
                   friends,
                   friend_ver,
                   overlap,
                   transport>>

\* send_request: Err when writer is None; otherwise the frame goes to the
\* write half, and the result is the transport's (accepted tells whether
\* the peer still takes frames)
send_request(has_writer, accepted) ==
    IF ~has_writer THEN [ok |-> FALSE, written |-> 0]
    ELSE IF accepted THEN [ok |-> TRUE, written |-> 1]
    ELSE [ok |-> FALSE, written |-> 0]

\* a send method of the client (send_text_message, ...) reaches send_request
SendRequest ==
    /\ sent_frames < MaxSent
    /\ \E accepted \in BOOLEAN :
         \E r \in {send_request(writer, accepted)} :
            /\ sent_frames' = sent_frames + r.written
            /\ last' = LastCall("send", <<accepted>>, r.ok, "")
    /\ UNCHANGED <<convs, ver, uuidN, received_msg_ids, recvNewMessage, pc,
                   total_unread, message_store, http_requests,
                   connection_status, kicked_offline, writer,
                   friends,
                   friend_ver,
                   overlap,
                   transport>>

\* a binary frame as handle_binary_message sees it: whether it starts with
\* the gzip magic 1f 8b, whether it inflates, whether the bytes parse as an
\* OpenIMResp, and whether the data of a push decodes as PushMessages
BinaryFrames ==
    [magic : BOOLEAN, inflates : BOOLEAN, json : BOOLEAN, protobuf : BOOLEAN]

\* handle_binary_message and handle_push_message up to the decoded push:
\* the step that fails, or "ok"
decode_frame(bin) ==
    IF bin.magic /\ ~bin.inflates THEN "gzip_error"
    ELSE IF ~bin.json THEN "json_error"
    ELSE IF ~bin.protobuf THEN "protobuf_error"
    ELSE "ok"

DecodeErrors == {"gzip_error", "json_error", "protobuf_error"}

\* variant: a reader that gives up on a frame it cannot decode
ReaderAfterDropStops(pcs) == [pcs EXCEPT !.reader = "terminated"]

\* error!(..); return;  handle_binary_message returns to the loop of
\* handle_messages
ReaderAfterDrop(pcs) == pcs

\* handle_messages: a binary frame that does not decode
ReadMalformed ==
    /\ pc.reader = "idle"
    /\ \E bin \in BinaryFrames :
         /\ decode_frame(bin) \in DecodeErrors
         /\ last' = LastCall("read", <<bin>>, TRUE, decode_frame(bin))
    /\ pc' = ReaderAfterDrop(pc)
    /\ UNCHANGED <<convs, ver, uuidN, received_msg_ids, recvNewMessage,
                   total_unread, message_store, http_requests,
                   connection_status, kicked_offline, writer, sent_frames,
                   friends, friend_ver, overlap,
                   transport>>

\* w.send(WsMessage::Ping(vec![])).await on the shared write half: Err on
\* a closed connection; accepted tells whether an open one takes the frame
ping_written(connection, accepted) == connection = "open" /\ accepted

\* variant: a heartbeat loop that goes on after a failed write
HeartbeatGoesOn(pcs, written) == pcs

\* if w.send(..).await.is_err() { break; }
HeartbeatAfterPing(pcs, written) ==
    IF written THEN pcs ELSE [pcs EXCEPT !.heartbeat = "terminated"]

\* the heartbeat task: one turn of its loop, ticker.tick() then the ping
Heartbeat ==
    /\ pc.heartbeat = "ticking"
    /\ \E accepted \in BOOLEAN :
         \E written \in {ping_written(transport, accepted)} :
            /\ pc' = HeartbeatAfterPing(pc, written)
            /\ last' = LastCall("ping", <<accepted>>, written, "")
    /\ UNCHANGED <<convs, ver, uuidN, received_msg_ids, recvNewMessage,
                   total_unread, message_store, http_requests,
                   connection_status, kicked_offline, writer, sent_frames,
                   friends, friend_ver, overlap, transport>>

NextConnect ==
    \/ Connect
    \/ ReadPush
    \/ ReadIgnored
    \/ ReadLast
    \/ ReadKick
    \/ ReadMalformed
    \/ SendRequest

SpecConnect == InitNew /\ [][NextConnect]_vars

\* the reader task is a tokio task: the runtime keeps polling it while the
\* stream has items
SpecConnectLive ==
    SpecConnect /\ WF_vars(ReadPush \/ ReadIgnored \/ ReadLast \/ ReadKick
                            \/ ReadMalformed)

(***************************************************************************)
(* SpecHeartbeat: connect(), then the heartbeat task next to the reader    *)
(* task and the callers of send_request, which share the write half        *)
(***************************************************************************)
NextHeartbeat ==
    \/ Connect
    \/ ReadIgnored
    \/ ReadMalformed
    \/ ReadKick
    \/ ReadLast
    \/ SendRequest
    \/ Heartbeat

\* the heartbeat task is a tokio task: its interval wakes it every 25 s,
\* and the lock on the write half is held only for the length of one write
SpecHeartbeat ==
    /\ InitNew
    /\ [][NextHeartbeat]_vars
    /\ WF_vars(ReadIgnored \/ ReadMalformed \/ ReadKick \/ ReadLast)
    /\ WF_vars(Heartbeat)

\* the first frame has a non-zero errCode, cannot be parsed, is absent or is
\* a transport error
FailedHandshake(first) ==
    \/ first.kind = "text" /\ first.parses /\ first.err_code # 0
    \/ first.kind = "text" /\ ~first.parses
    \/ first.kind = "none"
    \/ first.kind = "error"

\* C19: when the first server frame has a non-zero errCode, cannot be parsed,
\* is absent or is a transport error, connect returns an error and has
\* started no reader task, no heartbeat task and no syncer
C19_FailedHandshakeStartsNothing ==
    (last.op = "connect" /\ FailedHandshake(last.args[1]))
       => /\ ~last.ok
          /\ pc.reader = "none"
          /\ pc.heartbeat = "none"
          /\ pc.sync = "none"
          /\ pc.friend_sync = "none"

C19_Witness ==
    /\ last.op = "connect"
    /\ last.args[1] = WsText(TRUE, 1)
    /\ last.args[2] = "none"
    /\ ~last.ok

\* the read stream ended or failed after a successful connect
StreamOver == last.op = "read" /\ last.path \in {"error", "none"}

\* C20: after the read stream ends or a transport error occurs, the reader
\* task has terminated and the advanced-message listener eventually
\* receives on_connection_status_changed(false)
C20_StreamEndReportsDisconnect ==
    StreamOver ~> (/\ pc.reader = "terminated"
                   /\ \E i \in 1..Len(connection_status) :
                         ~connection_status[i])

\* C21: after a kick-offline frame has been received, on_kicked_offline has
\* been delivered and no later frame of the session is processed: no message
\* callback fires and no conversation row changes
C21_KickStopsProcessing ==
    [][kicked_offline > 0
       => /\ convs' = convs
          /\ recvNewMessage' = recvNewMessage
          /\ received_msg_ids' = received_msg_ids]_vars

\* C22: a send request issued while the client has no authenticated session
\* (connect not yet called, or connect returned an error) returns an error
\* and writes no frame to the transport
C22_SendNeedsSession ==
    [][(last'.op = "send" /\ pc.reader = "none")
       => ~last'.ok /\ sent_frames' = sent_frames]_vars


(***************************************************************************)
(* FriendSyncer                                                            *)
(***************************************************************************)
\* "showNumber" of the one page FriendApi::get_all_friends asks for
ShowNumber == 1000

\* the columns friends_equal compares, as one value
LocalFriend(remark) == [remark |-> remark]

\* the server's friends are the users 1..count; its full list in the order
\* it pages them
ServerFriends(count) == [u \in 1..count |-> LocalFriend("srv")]

\* FriendApi::get_all_friends: pageNumber 1 with showNumber entries
get_all_friends(fsrv) ==
    [u \in {x \in DOMAIN ServerFriends(fsrv.count) : x <= ShowNumber} |->
        ServerFriends(fsrv.count)[u]]

\* FriendApi::get_full_friend_user_ids: (version, versionID, userIDs)
get_full_friend_user_ids(fsrv) ==
    [version |-> fsrv.ids_version, version_id |-> fsrv.ids_version_id,
     user_ids |-> DOMAIN ServerFriends(fsrv.count)]

IncrementalFriendsResp(full, version, versionId, ins, upd, del) ==
    [full |-> full, version |-> version, version_id |-> versionId,
     insert |-> ins, update |-> upd, delete |-> del]

FriendCalls == {"ids", "all", "incr", "black", "requests"}

\* FriendListener events
on_friend_list_changed == "friend_list_changed"

on_black_list_changed == "black_list_changed"

on_friend_request_list_changed == "friend_request_list_changed"

friends_equal(local, server) == local.remark = server.remark

\* sync_friends: the local IDs deleted, those absent from the server list
\* when is_full
FriendDeletes(server_map, local_map, is_full) ==
    IF is_full THEN DOMAIN local_map \ DOMAIN server_map ELSE {}

\* sync_friends on table t: the table it leaves and the events it emits
sync_friends(t, server_friends, local_friends, is_full) ==
    LET changed ==
          {u \in DOMAIN server_friends :
             \/ u \notin DOMAIN local_friends
             \/ ~friends_equal(local_friends[u], server_friends[u])}
        deleted == FriendDeletes(server_friends, local_friends, is_full)
    IN [friends |-> [u \in (DOMAIN t \cup changed) \ deleted |->
                       IF u \in changed THEN server_friends[u] ELSE t[u]],
        events |-> IF changed # {} THEN <<on_friend_list_changed>> ELSE <<>>]

\* result of a friend pass: the tables, Ok or Err, the branch, the events,
\* the calls made and the (version, versionID) sent to
\* get_incremental_friends
FriendPassResult(t, v, ok, path, events, calls, sent) ==
    [friends |-> t, ver |-> v, ok |-> ok, path |-> path, events |-> events,
     calls |-> calls, sent |-> sent]

NothingSent == LocalVersionSync(0, "")

\* incr_sync_friends
incr_sync_friends(t, v, fsrv) ==
    LET ids == get_full_friend_user_ids(fsrv)
        asks_ids == ~v.exists
        ids_ok == asks_ids /\ "ids" \notin fsrv.fail
        calls0 == IF asks_ids THEN {"ids"} ELSE {}
    IN IF ids_ok /\ ids.user_ids # DOMAIN t
       THEN IF "all" \in fsrv.fail
            THEN FriendPassResult(t, v, FALSE, "ids_differ", <<>>,
                                  calls0 \cup {"all"}, NothingSent)
            ELSE LET r == sync_friends(t, get_all_friends(fsrv), t, TRUE)
                 IN FriendPassResult(
                      r.friends,
                      LocalVersionSync(ids.version, ids.version_id), TRUE,
                      "ids_differ", r.events, calls0 \cup {"all"},
                      NothingSent)
       ELSE
         LET v1 == IF ids_ok /\ ids.version > 0 /\ ids.version_id # ""
                   THEN LocalVersionSync(ids.version, ids.version_id)
                   ELSE v
             \* version_sync is the row read at the start of the pass
             version == IF v.exists THEN v.version ELSE 0
             version_id == IF v.exists THEN v.version_id ELSE ""
             sent == LocalVersionSync(version, version_id)
             calls1 == calls0 \cup {"incr"}
             resp == fsrv.incr
             new_version ==
               IF resp.version_id # ""
               THEN LocalVersionSync(
                      IF resp.version > 0 THEN resp.version ELSE version + 1,
                      resp.version_id)
               ELSE v1
         IN IF "incr" \in fsrv.fail
            THEN FriendPassResult(t, v1, FALSE, "incremental", <<>>, calls1,
                                  sent)
            ELSE IF resp.full
            THEN IF "all" \in fsrv.fail
                 THEN FriendPassResult(t, v1, FALSE, "server_full", <<>>,
                                       calls1 \cup {"all"}, sent)
                 ELSE LET r == sync_friends(t, get_all_friends(fsrv), t, TRUE)
                      IN FriendPassResult(r.friends, new_version, TRUE,
                                          "server_full", r.events,
                                          calls1 \cup {"all"}, sent)
            ELSE
              LET server_friends ==
                    [u \in resp.insert \cup resp.update |-> LocalFriend("srv")]
                  r == sync_friends(t, server_friends, t, FALSE)
                  removed == [u \in DOMAIN r.friends \ resp.delete |->
                                r.friends[u]]
              IN FriendPassResult(
                   removed, new_version, TRUE, "incremental",
                   r.events
                     \o (IF "black" \in fsrv.fail THEN <<>>
                         ELSE <<on_black_list_changed>>)
                     \o (IF "requests" \in fsrv.fail THEN <<>>
                         ELSE <<on_friend_request_list_changed>>),
                   calls1 \cup {"black", "requests"}, sent)

(***************************************************************************)
(* SpecFriends: one incr_sync_friends pass on every small friend table     *)
(***************************************************************************)
FriendTables ==
    UNION {[S -> {LocalFriend("srv"), LocalFriend("old")}] :
              S \in SUBSET {1, 2}}

FriendIncrReplies ==
    {IncrementalFriendsResp(f, ver2, vid, i, u, d) :
        f \in BOOLEAN, ver2 \in {0, 2}, vid \in {"", "b"},
        i \in {{}, {3}}, u \in {{}, {1}}, d \in {{}, {2}}}

FriendReplies ==
    [count : {0, 1, 2, ShowNumber + 1}, ids_version : {0, 2},
     ids_version_id : {"", "b"}, incr : FriendIncrReplies,
     fail : {{}} \cup {{c} : c \in FriendCalls}]

InitFriends ==
    /\ convs = EmptyTable
    /\ ver = NoVersionSync
    /\ uuidN = 0
    /\ received_msg_ids = {}
    /\ recvNewMessage = [m \in MsgIds |-> 0]
    /\ last = NoOp
    /\ pc = TasksAtRest
    /\ total_unread = 0
    /\ message_store = MessageStore(TRUE, <<>>)
    /\ http_requests = <<>>
    /\ connection_status = <<TRUE>>
    /\ kicked_offline = 0
    /\ writer = TRUE
    /\ sent_frames = 0
    /\ friends \in FriendTables
    /\ friend_ver \in {NoVersionSync, LocalVersionSync(1, "a")}
    /\ overlap = <<>>
    /\ transport = "open"

\* one call of incr_sync_friends, run to its return
FriendSync ==
    /\ last.op = "init"
    /\ pc.friend_sync = "spawned"
    /\ \E fsrv \in FriendReplies :
         \E r \in {incr_sync_friends(friends, friend_ver, fsrv)} :
            /\ friends' = r.friends
            /\ friend_ver' = r.ver
            /\ last' = [LastCall("friend_sync", <<fsrv, r.calls, r.sent>>,
                                 r.ok, r.path)
                          EXCEPT !.events = r.events]
    /\ pc' = [pc EXCEPT !.friend_sync = "done"]
    /\ UNCHANGED <<convs, ver, uuidN, received_msg_ids, recvNewMessage,
                   total_unread, message_store, http_requests,
                   connection_status, kicked_offline, writer, sent_frames,
                   overlap,
                   transport>>

NextFriends == FriendSync

SpecFriends == InitFriends /\ [][NextFriends]_vars

\* C24: every incr_sync_friends pass that returns success, a full-sync pass
\* included, has fetched the black list and the friend-request list and has
\* fired on_black_list_changed and on_friend_request_list_changed
C24_SuccessfulPassRefreshesLists ==
    (last.op = "friend_sync" /\ last.ok)
       => /\ {"black", "requests"} \subseteq last.args[2]
          /\ \E i \in 1..Len(last.events) :
                last.events[i] = on_black_list_changed
          /\ \E i \in 1..Len(last.events) :
                last.events[i] = on_friend_request_list_changed

\* C25: after a full friend sync that completes successfully the local
\* friend IDs are the IDs of the server's full friend list
C25_FullFriendSyncAlignsIds ==
    (/\ last.op = "friend_sync"
     /\ last.ok
     /\ last.path \in {"ids_differ", "server_full"})
       => DOMAIN friends = DOMAIN ServerFriends(last.args[1].count)


(***************************************************************************)
(* MessageStore: the per-conversation message tables                       *)
(***************************************************************************)
\* the columns of the table ensure_table creates
TableColumns ==
    <<"client_msg_id", "server_msg_id", "send_id", "recv_id",
      "sender_platform_id", "sender_nickname", "sender_face_url",
      "session_type", "msg_from", "content_type", "content", "is_read",
      "status", "seq", "send_time", "create_time", "attached_info", "ex",
      "local_ex">>

\* the columns insert_message names in INSERT OR REPLACE INTO
InsertColumns ==
    <<"client_msg_id", "server_msg_id", "send_id", "recv_id",
      "sender_platform_id", "sender_nickname", "sender_face_url",
      "session_type", "msg_from", "content_type", "content", "is_read",
      "status", "seq", "send_time", "create_time", "attached_info", "ex",
      "local_ex", "group_id">>

\* the number of ? in the VALUES list of insert_message
InsertPlaceholders == 19

\* SQLite prepares INSERT INTO t (columns) VALUES (?,..) when every named
\* column is a column of t and there is one value for each column
Prepares(columns, placeholders, table_columns) ==
    /\ \A i \in 1..Len(columns) :
          \E j \in 1..Len(table_columns) : table_columns[j] = columns[i]
    /\ Len(columns) = placeholders

\* insert_message: Ok or Err and the store it leaves; INSERT OR REPLACE
\* keys the row by client_msg_id in the conversation's table
insert_message(store, conversation_id, client_msg_id, msg) ==
    IF Prepares(InsertColumns, InsertPlaceholders, TableColumns)
    THEN [ok |-> TRUE,
          store |-> MessageStore(store.open,
             [k \in DOMAIN store.rows
                      \cup {<<table_name(conversation_id), client_msg_id>>}
                |-> IF k = <<table_name(conversation_id), client_msg_id>>
                       THEN msg
                    ELSE store.rows[k]])]
    ELSE [ok |-> FALSE, store |-> store]

\* variant: an UPDATE without the send_id condition
AnySender(send_id, login_user_id) == TRUE

\* ... AND send_id != ?  bound to login_user_id
NotSentBy(send_id, login_user_id) == send_id # login_user_id

\* mark_as_read_by_msg_ids: the store it leaves and rows_affected
mark_as_read_by_msg_ids(store, conversation_id, msg_ids) ==
    LET hit == {k \in DOMAIN store.rows :
                  /\ k[1] = table_name(conversation_id)
                  /\ k[2] \in msg_ids
                  /\ NotSentBy(store.rows[k].send_id, SelfUser)}
    IN [store |-> MessageStore(store.open,
                    [k \in DOMAIN store.rows |->
                       IF k \in hit
                       THEN [store.rows[k] EXCEPT !.is_read = TRUE]
                       ELSE store.rows[k]]),
        affected |-> Cardinality(hit)]

\* mark_as_read_by_seqs: the store it leaves and rows_affected
mark_as_read_by_seqs(store, conversation_id, seqs) ==
    LET hit == {k \in DOMAIN store.rows :
                  /\ k[1] = table_name(conversation_id)
                  /\ store.rows[k].seq \in seqs
                  /\ NotSentBy(store.rows[k].send_id, SelfUser)}
    IN [store |-> MessageStore(store.open,
                    [k \in DOMAIN store.rows |->
                       IF k \in hit
                       THEN [store.rows[k] EXCEPT !.is_read = TRUE]
                       ELSE store.rows[k]]),
        affected |-> Cardinality(hit)]

\* get_unread_by_conversation: the seqs of the rows it returns
get_unread_by_conversation(store, conversation_id) ==
    {store.rows[k].seq :
        k \in {x \in DOMAIN store.rows :
                  /\ x[1] = table_name(conversation_id)
                  /\ ~store.rows[x].is_read
                  /\ store.rows[x].send_id # SelfUser}}

\* the server's answer to a read-mark request: 2xx with errCode 0, a
\* non-2xx status, or 2xx with a non-zero errCode
ReadMarkReplies == {"ok", "http_error", "err_code"}

\* POST {api_base_url}/msg/mark_msgs_as_read_by_msg_id
MarkMsgsRequest(conversation_id, client_msg_ids) ==
    [url |-> "/msg/mark_msgs_as_read_by_msg_id",
     conversationID |-> conversation_id, clientMsgIDs |-> client_msg_ids,
     userID |-> SelfUser]

\* POST {api_base_url}/msg/mark_conversation_as_read
MarkConversationRequest(conversation_id) ==
    [url |-> "/msg/mark_conversation_as_read",
     conversationID |-> conversation_id, userID |-> SelfUser]

\* mark_messages_as_read_by_msg_id: Ok or Err, the store and the requests
mark_messages_as_read_by_msg_id(store, conversation_id, ids, reply) ==
    [ok |-> reply = "ok",
     store |-> IF store.open /\ ids # {}
               THEN mark_as_read_by_msg_ids(store, conversation_id, ids).store
               ELSE store,
     sent |-> <<MarkMsgsRequest(conversation_id, ids)>>]

\* mark_conversation_message_as_read_full: Ok or Err, the store and the
\* requests
mark_conversation_message_as_read_full(store, conversation_id, reply) ==
    LET seqs == get_unread_by_conversation(store, conversation_id)
    IN [ok |-> reply = "ok",
        store |-> IF store.open /\ seqs # {}
                  THEN mark_as_read_by_seqs(store, conversation_id, seqs).store
                  ELSE store,
        sent |-> <<MarkConversationRequest(conversation_id)>>]

(***************************************************************************)
(* SpecStore: one call on the message store, from every small database     *)
(***************************************************************************)
\* rows found in the database file at db_url
ChatLogs ==
    {LocalChatLog(seq, MSG_STATUS_SEND_SUCCESS, send_id, is_read) :
        seq \in {1, 2}, send_id \in {SelfUser, "peer"}, is_read \in BOOLEAN}

InitStore ==
    /\ convs = EmptyTable
    /\ ver = NoVersionSync
    /\ uuidN = 0
    /\ received_msg_ids = {}
    /\ recvNewMessage = [m \in MsgIds |-> 0]
    /\ last = NoOp
    /\ total_unread = 0
    /\ \E open \in BOOLEAN :
         /\ message_store \in
               {MessageStore(open, rows) :
                  rows \in IF open
                           THEN UNION {[K -> ChatLogs] : K \in SUBSET StoreKeys}
                           ELSE {<<>>}}
         /\ pc = IF open THEN TasksAtRest ELSE NoTasks
         /\ connection_status = IF open THEN <<TRUE>> ELSE <<>>
    /\ http_requests = <<>>
    /\ kicked_offline = 0
    /\ writer = message_store.open
    /\ sent_frames = 0
    /\ friends = <<>>
    /\ friend_ver = NoVersionSync
    /\ overlap = <<>>
    /\ transport = IF message_store.open THEN "open" ELSE "none"

StoreUntouched ==
    UNCHANGED <<convs, ver, uuidN, received_msg_ids, recvNewMessage, pc,
                total_unread, connection_status, kicked_offline, writer,
                sent_frames, friends, friend_ver,
                   overlap,
                   transport>>

\* store_msg -> MessageStore::insert_message
InsertMessage ==
    /\ last.op = "init"
    /\ message_store.open
    /\ \E conversation_id \in ConvIds, client_msg_id \in MsgIds,
          msg \in ChatLogs :
         \E r \in {insert_message(message_store, conversation_id,
                                  client_msg_id, msg)} :
            /\ message_store' = r.store
            /\ last' = LastCall("insert_message",
                                <<conversation_id, client_msg_id, msg>>,
                                r.ok, "")
    /\ UNCHANGED http_requests
    /\ StoreUntouched

\* mark_messages_as_read_by_msg_id_local -> mark_as_read_by_msg_ids
MarkAsReadByMsgIds ==
    /\ last.op = "init"
    /\ message_store.open
    /\ \E conversation_id \in ConvIds, msg_ids \in SUBSET MsgIds :
         \E r \in {mark_as_read_by_msg_ids(message_store, conversation_id,
                                           msg_ids)} :
            /\ message_store' = r.store
            /\ last' = LastCall("mark_as_read_by_msg_ids",
                                <<conversation_id, msg_ids>>, TRUE,
                                r.affected)
    /\ UNCHANGED http_requests
    /\ StoreUntouched

\* MessageStore::mark_as_read_by_seqs
MarkAsReadBySeqs ==
    /\ last.op = "init"
    /\ message_store.open
    /\ \E conversation_id \in ConvIds, seqs \in SUBSET {1, 2} :
         \E r \in {mark_as_read_by_seqs(message_store, conversation_id,
                                        seqs)} :
            /\ message_store' = r.store
            /\ last' = LastCall("mark_as_read_by_seqs",
                                <<conversation_id, seqs>>, TRUE, r.affected)
    /\ UNCHANGED http_requests
    /\ StoreUntouched

MarkMessagesAsReadByMsgId ==
    /\ last.op = "init"
    /\ \E conversation_id \in ConvIds, client_msg_ids \in SUBSET MsgIds,
          reply \in ReadMarkReplies :
         \E r \in {mark_messages_as_read_by_msg_id(
                      message_store, conversation_id, client_msg_ids, reply)} :
            /\ message_store' = r.store
            /\ http_requests' = http_requests \o r.sent
            /\ last' = LastCall("mark_messages_as_read_by_msg_id",
                                <<conversation_id, client_msg_ids>>, r.ok,
                                reply)
    /\ StoreUntouched

MarkConversationMessageAsReadFull ==
    /\ last.op = "init"
    /\ \E conversation_id \in ConvIds, reply \in ReadMarkReplies :
         \E r \in {mark_conversation_message_as_read_full(
                      message_store, conversation_id, reply)} :
            /\ message_store' = r.store
            /\ http_requests' = http_requests \o r.sent
            /\ last' = LastCall("mark_conversation_message_as_read_full",
                                <<conversation_id>>, r.ok, reply)
    /\ StoreUntouched

NextStore ==
    \/ InsertMessage
    \/ MarkAsReadByMsgIds
    \/ MarkAsReadBySeqs
    \/ MarkMessagesAsReadByMsgId
    \/ MarkConversationMessageAsReadFull

SpecStore == InitStore /\ [][NextStore]_vars

\* a conversation ID with no row in local_conversations and no message row
UnknownLocally(conversation_id) ==
    /\ conversation_id \notin DOMAIN convs
    /\ \A k \in DOMAIN message_store.rows :
          k[1] # table_name(conversation_id)

\* C27: mark_messages_as_read_by_msg_id and
\* mark_conversation_message_as_read_full, called with a conversation ID
\* unknown locally, return an error and send no request to the server
C27_UnknownConversationNotSent ==
    [][(/\ last'.op \in {"mark_messages_as_read_by_msg_id",
                         "mark_conversation_message_as_read_full"}
        /\ last.op = "init"
        /\ UnknownLocally(last'.args[1]))
          => (~last'.ok /\ http_requests' = http_requests)]_vars

\* C28: insert_message(msg) stores msg so that get_by_client_msg_id on its
\* conversation and client_msg_id returns it, one row per client_msg_id
C28_InsertThenGet ==
    [][(last'.op = "insert_message" /\ last.op = "init")
          => LET got == get_by_client_msg_id(message_store', last'.args[1],
                                             last'.args[2])
             IN got.found /\ got.msg = last'.args[3]]_vars

\* C29: mark_as_read_by_msg_ids and mark_as_read_by_seqs never change
\* is_read on a message whose send_id is the logged-in user, whatever ids
\* or seqs are passed
C29_OwnMessagesKeepIsRead ==
    [][(last'.op \in {"mark_as_read_by_msg_ids", "mark_as_read_by_seqs"}
        /\ last.op = "init")
          => \A k \in DOMAIN message_store.rows :
                message_store.rows[k].send_id = SelfUser
                   => /\ k \in DOMAIN message_store'.rows
                      /\ message_store'.rows[k].is_read
                            = message_store.rows[k].is_read]_vars

\* a call that names an unread message of the logged-in user, by id or by
\* seq, and marked a peer's message in the same call
C29_Witness ==
    /\ last.op \in {"mark_as_read_by_msg_ids", "mark_as_read_by_seqs"}
    /\ last.path > 0
    /\ \E k \in DOMAIN message_store.rows :
          /\ k[1] = table_name(last.args[1])
          /\ message_store.rows[k].send_id = SelfUser
          /\ ~message_store.rows[k].is_read
          /\ IF last.op = "mark_as_read_by_msg_ids"
             THEN k[2] \in last.args[2]
             ELSE message_store.rows[k].seq \in last.args[2]


(***************************************************************************)
(* get_conversation_list_split                                             *)
(***************************************************************************)
\* usize, scaled to UsizeBits bits
UsizeBits == 3

UsizeMax == 2 ^ UsizeBits - 1

\* overflow-checks of the build profile: dev panics on overflow, release
\* wraps
Builds == {"debug", "release"}

\* offset + count on usize
usize_add(a, b, build) ==
    [panic |-> build = "debug" /\ a + b > UsizeMax,
     value |-> (a + b) % (2 ^ UsizeBits)]

Min(a, b) == IF a <= b THEN a ELSE b

Max(a, b) == IF a >= b THEN a ELSE b

\* the order in which get_all_conversations returns the rows
ListIds == <<"c1", "c2", "c3">>

\* the closure of list.sort_by: "Less", "Equal" or "Greater"
ListCompare(a, b) ==
    IF a.is_pinned /\ ~b.is_pinned THEN "Less"
    ELSE IF ~a.is_pinned /\ b.is_pinned THEN "Greater"
    ELSE LET time_a == Max(a.latest_msg_send_time, a.draft_text_time)
             time_b == Max(b.latest_msg_send_time, b.draft_text_time)
         IN IF time_b < time_a THEN "Less"
            ELSE IF time_b > time_a THEN "Greater"
            ELSE "Equal"

RECURSIVE SortInsert(_, _, _)
\* x put into the sorted list after every element that is not Greater
SortInsert(t, x, sorted) ==
    IF sorted = <<>> THEN <<x>>
    ELSE IF ListCompare(t[Head(sorted)], t[x]) = "Greater"
         THEN <<x>> \o sorted
         ELSE <<Head(sorted)>> \o SortInsert(t, x, Tail(sorted))

RECURSIVE SortBy(_, _)
\* list.sort_by (stable): the conversation IDs in sorted order
SortBy(t, list) ==
    IF list = <<>> THEN <<>>
    ELSE SortInsert(t, list[Len(list)],
                    SortBy(t, SubSeq(list, 1, Len(list) - 1)))

\* list.retain(|c| c.latest_msg_send_time > 0)
Retained(c) == c.latest_msg_send_time > 0

\* get_conversation_list_split: a panic, or the IDs of the rows returned
get_conversation_list_split(t, offset, count, build) ==
    LET all == SelectSeq(ListIds, LAMBDA c : c \in DOMAIN t)
        list == SortBy(t, SelectSeq(all, LAMBDA c : Retained(t[c])))
        sum == usize_add(offset, count, build)
        start == Min(offset, Len(list))
        end == Min(sum.value, Len(list))
    IN IF sum.panic \/ start > end
       THEN [panic |-> TRUE, list |-> <<>>]
       ELSE [panic |-> FALSE, list |-> SubSeq(list, start + 1, end)]

\* get_all_conversation_list
get_all_conversation_list(t, build) ==
    get_conversation_list_split(t, 0, UsizeMax, build)

(***************************************************************************)
(* SpecList: one listing call on every small conversation table            *)
(***************************************************************************)
ListRows ==
    {[LocalConversation(0, 1, 0, "hi", sendTime, pinned)
        EXCEPT !.draft_text_time = draft] :
        sendTime \in {0, 1}, pinned \in BOOLEAN, draft \in {0, 2}}

ListTables ==
    UNION {[S -> ListRows] : S \in SUBSET {"c1", "c2", "c3"}}

InitList ==
    /\ convs \in ListTables
    /\ ver = NoVersionSync
    /\ uuidN = 0
    /\ received_msg_ids = {}
    /\ recvNewMessage = [m \in MsgIds |-> 0]
    /\ last = NoOp
    /\ pc = TasksAtRest
    /\ total_unread = 0
    /\ AfterConnect

GetConversationListSplit ==
    /\ last.op = "init"
    /\ \E offset \in 0..UsizeMax, count \in 0..UsizeMax, build \in Builds :
         \E r \in {get_conversation_list_split(convs, offset, count, build)} :
            last' = LastCall("get_conversation_list_split",
                             <<offset, count, r.list>>, ~r.panic, build)
    /\ UNCHANGED <<convs, ver, uuidN, received_msg_ids, recvNewMessage, pc,
                   total_unread, friends, friend_ver>>
    /\ SessionUntouched

GetAllConversationList ==
    /\ last.op = "init"
    /\ \E build \in Builds :
         \E r \in {get_all_conversation_list(convs, build)} :
            last' = LastCall("get_all_conversation_list",
                             <<0, UsizeMax, r.list>>, ~r.panic, build)
    /\ UNCHANGED <<convs, ver, uuidN, received_msg_ids, recvNewMessage, pc,
                   total_unread, friends, friend_ver>>
    /\ SessionUntouched

NextList == GetConversationListSplit \/ GetAllConversationList

SpecList == InitList /\ [][NextList]_vars

\* the orderings of the conversations with a latest_msg_send_time other
\* than 0: pinned first, then max(latest_msg_send_time, draft_text_time)
\* descending
ListOrderings ==
    LET S == {c \in DOMAIN convs : convs[c].latest_msg_send_time # 0}
        key(c) == Max(convs[c].latest_msg_send_time, convs[c].draft_text_time)
    IN {L \in [1..Cardinality(S) -> S] :
          /\ \A i, j \in DOMAIN L : i # j => L[i] # L[j]
          /\ \A i, j \in DOMAIN L :
                i < j => /\ (convs[L[j]].is_pinned => convs[L[i]].is_pinned)
                         /\ (convs[L[i]].is_pinned = convs[L[j]].is_pinned
                               => key(L[i]) >= key(L[j]))}

\* C30: for every offset and count get_conversation_list_split returns the
\* elements at positions [offset, offset + count) of the conversations with
\* latest_msg_send_time other than 0, ordered by is_pinned descending and
\* then max(latest_msg_send_time, draft_text_time) descending
C30_ListSplitIsSlice ==
    last.op \in {"get_conversation_list_split", "get_all_conversation_list"}
       => /\ last.ok
          /\ \E L \in ListOrderings :
                last.args[3] =
                   SubSeq(L, last.args[1] + 1,
                          Min(last.args[1] + last.args[2], Len(L)))


(***************************************************************************)
(* SpecOverlap: two incr_sync_conversations calls on the one syncer, the   *)
(* start-up pass connect() spawns and the pass on_new_message starts for   *)
(* a conversation notification.  Each reads the version row and the table, *)
(* awaits the server, then writes; nothing keeps the other pass out in     *)
(* between.  The server does not change while they run.                    *)
(***************************************************************************)
Passes == {"startup", "notified"}

\* a server at version 2 of the user's conversation list: the IDs now and
\* the IDs at version 1
SyncServer(ids, prev_ids) ==
    [version |-> 2, version_id |-> "b", ids |-> ids, prev_ids |-> prev_ids]

\* what the server answers a pass that sends version_sync: nothing new for
\* its own version, the difference for the version before, full = true for
\* a pair it did not issue
ReplyTo(server, version_sync) ==
    [all_ids |-> server.ids,
     shape |-> [is_pinned |-> FALSE, min_seq |-> 0],
     seqs |-> [c \in server.ids |-> SeqInfo(MaxSeq, 0)],
     incr |->
       IF version_sync.version_id = server.version_id
          /\ version_sync.version = server.version
       THEN IncrementalConversationResp(FALSE, server.version,
                                        server.version_id, {}, {}, {})
       ELSE IF version_sync.version_id = server.version_id
               /\ version_sync.version = server.version - 1
       THEN IncrementalConversationResp(FALSE, server.version,
                                        server.version_id,
                                        server.ids \ server.prev_ids, {},
                                        server.prev_ids \ server.ids)
       ELSE IncrementalConversationResp(TRUE, server.version,
                                        server.version_id, {}, {}, {}),
     fail |-> {}, db |-> NoDbError]

\* let version_sync = ..; let local_conversations = ..  at the start of a
\* pass
PassSnapshot(t, v) == [local_conversations |-> t, version_sync |-> v]

InitOverlap ==
    /\ convs \in SyncInitTables
    /\ ver \in {NoVersionSync, LocalVersionSync(1, "b"),
                 LocalVersionSync(2, "b")}
    /\ uuidN = 0
    /\ received_msg_ids = {}
    /\ recvNewMessage = [m \in MsgIds |-> 0]
    /\ last = NoOp
    /\ pc = TasksAtRest
    /\ total_unread = 0
    /\ message_store = MessageStore(TRUE, <<>>)
    /\ http_requests = <<>>
    /\ connection_status = <<TRUE>>
    /\ kicked_offline = 0
    /\ writer = TRUE
    /\ sent_frames = 0
    /\ friends = <<>>
    /\ friend_ver = NoVersionSync
    /\ \E ids \in SUBSET ConvIds, prev_ids \in SUBSET ConvIds :
         overlap = [server |-> SyncServer(ids, prev_ids),
                    start |-> [convs |-> convs, ver |-> ver, uuidN |-> uuidN],
                    snap |-> <<>>, done |-> {}]
    /\ transport = "open"

OverlapUntouched ==
    UNCHANGED <<received_msg_ids, recvNewMessage, pc, total_unread,
                message_store, http_requests, connection_status,
                kicked_offline, writer, sent_frames, friends, friend_ver,
                   transport>>

\* a pass reads the version row and the table
PassStarts ==
    /\ \E p \in Passes \ DOMAIN overlap.snap :
         /\ overlap' = [overlap EXCEPT !.snap =
               [q \in DOMAIN overlap.snap \cup {p} |->
                  IF q = p THEN PassSnapshot(convs, ver)
                  ELSE overlap.snap[q]]]
         /\ last' = LastCall("pass_starts", <<p>>, TRUE, "")
    /\ UNCHANGED <<convs, ver, uuidN>>
    /\ OverlapUntouched

\* the server has answered and the pass writes and returns
PassLands ==
    /\ \E p \in DOMAIN overlap.snap \ overlap.done :
         \E r \in {incr_sync_from(
                      convs, ver, overlap.snap[p].local_conversations,
                      overlap.snap[p].version_sync, uuidN,
                      ReplyTo(overlap.server, overlap.snap[p].version_sync))} :
            /\ r.uuidN <= MaxUuid
            /\ r.ver.version <= MaxVersion
            /\ convs' = r.convs
            /\ ver' = r.ver
            /\ uuidN' = r.uuidN
            /\ overlap' = [overlap EXCEPT !.done = @ \cup {p}]
            /\ last' = LastCall("pass_lands", <<p>>, r.ok, r.path)
    /\ OverlapUntouched

NextOverlap == PassStarts \/ PassLands

SpecOverlap == InitOverlap /\ [][NextOverlap]_vars

\* one pass run alone from state s against the server
RunAlone(s, server) ==
    LET r == incr_sync_conversations(s.convs, s.ver, s.uuidN,
                                     ReplyTo(server, s.ver))
    IN [convs |-> r.convs, ver |-> r.ver, uuidN |-> r.uuidN]

\* version rows that are equal, or both hold a version ID drawn by
\* Uuid::new_v4 next to the same version
SameVersionRow(a, b) ==
    /\ a.exists = b.exists
    /\ a.version = b.version
    /\ \/ a.version_id = b.version_id
       \/ /\ \E n \in 1..MaxUuid : a.version_id = UuidV4(n)
          /\ \E n \in 1..MaxUuid : b.version_id = UuidV4(n)

\* C26: two overlapping incr_sync_conversations calls on the same syncer
\* end with the conversation table and the version row of a sequential
\* execution of the two passes
C26_OverlapIsSequential ==
    overlap.done = Passes
       => LET seq == RunAlone(RunAlone(overlap.start, overlap.server),
                              overlap.server)
          IN convs = seq.convs /\ SameVersionRow(ver, seq.ver)

\* C36: when incr_sync_friends starts with no local version row and the
\* local friend IDs equal the server's, the (version, versionID) that
\* get_full_friend_user_ids returned is the pair the get_incremental_friends
\* request that follows carries
C36_EqualIdsVersionIsSent ==
    [][(/\ last'.op = "friend_sync"
        /\ ~friend_ver.exists
        /\ "ids" \notin last'.args[1].fail
        /\ get_full_friend_user_ids(last'.args[1]).user_ids = DOMAIN friends
        /\ "incr" \in last'.args[2])
          => last'.args[3] =
               LocalVersionSync(
                  get_full_friend_user_ids(last'.args[1]).version,
                  get_full_friend_user_ids(last'.args[1]).version_id)]_vars

\* C31: a binary frame that fails gzip decompression, JSON parsing or
\* protobuf decoding is dropped: the dedup guard and every stored row stay
\* as they were, and the reader goes on to the frames after it
C31_MalformedFrameDropped ==
    [][(last'.op = "read" /\ last'.path \in DecodeErrors)
          => /\ received_msg_ids' = received_msg_ids
             /\ convs' = convs
             /\ ver' = ver
             /\ message_store' = message_store
             /\ friends' = friends
             /\ pc'.reader = "idle"]_vars

\* a frame was dropped in a session that has delivered a message, and the
\* reader is back in its loop
C31_Witness ==
    /\ last.op = "read"
    /\ last.path \in DecodeErrors
    /\ received_msg_ids # {}
    /\ DOMAIN convs # {}
    /\ pc.reader = "idle"

\* C38: after on_new_message applies a message to a conversation, the
\* conversation's latest_msg_send_time is max(msg.send_time,
\* msg.create_time)
C38_SendTimeIsMax ==
    Applied
       => /\ AppliedConv \in DOMAIN convs
          /\ convs[AppliedConv].latest_msg_send_time
               = Max(AppliedMsg.send_time, AppliedMsg.create_time)

\* C35: every pass of incr_sync_conversations that returns success has
\* called sync_unread_by_seq during the pass, whichever path it took
C35_SuccessfulPassReconciles ==
    (last.op = "sync" /\ last.ok) => last.args = <<TRUE>>

SeqFetches == {"seqs", "seqs2"}

Listed(t, c) ==
    LET r == get_all_conversation_list(t, "release")
    IN \E i \in 1..Len(r.list) : r.list[i] = c

\* C33: a successful sync pass leaves every conversation that was present
\* before it and still exists after it with the latest_msg and
\* latest_msg_send_time it had, so a conversation that was listed by
\* get_conversation_list_split before the pass is still listed after it
C33_SyncKeepsLatestMsg ==
    [][(last'.op = "sync" /\ last'.ok)
       => \A c \in DOMAIN convs \cap DOMAIN convs' :
             /\ convs'[c].latest_msg = convs[c].latest_msg
             /\ convs'[c].latest_msg_send_time = convs[c].latest_msg_send_time
             /\ Listed(convs, c) => Listed(convs', c)
      ]_vars

(***************************************************************************)
(* SpecDbError: one pass during which the write of one conversation row    *)
(* fails with a database error                                             *)
(***************************************************************************)
DbErrors ==
    UNION {{[failing |-> {f}, earlier |-> e] : e \in SUBSET (ConvIds \ {f})} :
             f \in ConvIds}

DbReplies ==
    {[srv EXCEPT !.db = d] :
        srv \in {s \in SyncReplies : s.fail = {}}, d \in DbErrors}

SyncDbError ==
    /\ last.op = "init"
    /\ \E srv \in DbReplies : SyncPass(srv, 1)
    /\ RunsToReturn

NextDbError == SyncDbError

SpecDbError == InitSync /\ [][NextDbError]_vars

\* the pass of this step, had every row write succeeded
WithoutDbError ==
    incr_sync_conversations(convs, ver, uuidN,
                            [last'.srv EXCEPT !.db = NoDbError])

\* C37: when the write of one conversation row fails during a pass, the
\* pass skips that row and applies the other rows of the server payload:
\* every other conversation ends as a pass without the failure leaves it
C37_FailedRowIsSkipped ==
    [][(last'.op = "sync" /\ last'.srv.db.failing # {})
       => \A c \in ConvIds \ last'.srv.db.failing :
             /\ c \in DOMAIN convs' <=> c \in DOMAIN WithoutDbError.convs
             /\ c \in DOMAIN convs' => convs'[c] = WithoutDbError.convs[c]
      ]_vars

\* C34: for a pushed message that is not TYPING, the step that enqueues the
\* listener callback on_recv_new_message for the message starts in a state
\* in which on_new_message for that message has completed
C34_ConversationUpdatedBeforeCallback ==
    [][\A m \in MsgIds :
          recvNewMessage'[m] > recvNewMessage[m]
             => /\ last.op = "push"
                /\ last.seen.how = "applied"
                /\ last.seen.entry.msg.client_msg_id = m
      ]_vars

(***************************************************************************)
(* SpecTables: one message-store call on a database that holds the tables  *)
(* of several conversations                                                *)
(***************************************************************************)
\* MessageStore::delete_conversation: ensure_table, then DROP TABLE
store_delete_conversation(store, conversation_id) ==
    [store EXCEPT !.rows =
        [k \in {x \in DOMAIN store.rows : x[1] # table_name(conversation_id)}
           |-> store.rows[k]]]

TableConvIds == {"c1"} \cup GroupConvIds

TableLogs ==
    {LocalChatLog(1, MSG_STATUS_SEND_SUCCESS, PeerUser, FALSE),
     LocalChatLog(2, MSG_STATUS_SEND_SUCCESS, PeerUser, TRUE)}

TableKeys == {<<table_name(c), m>> : c \in TableConvIds, m \in MsgIds}

InitTables ==
    /\ convs = EmptyTable
    /\ ver = NoVersionSync
    /\ uuidN = 0
    /\ received_msg_ids = {}
    /\ recvNewMessage = [m \in MsgIds |-> 0]
    /\ last = NoOp
    /\ total_unread = 0
    /\ message_store \in
          {MessageStore(TRUE, rows) :
             rows \in UNION {[K -> TableLogs] : K \in SUBSET TableKeys}}
    /\ pc = TasksAtRest
    /\ connection_status = <<TRUE>>
    /\ http_requests = <<>>
    /\ kicked_offline = 0
    /\ writer = TRUE
    /\ sent_frames = 0
    /\ friends = <<>>
    /\ friend_ver = NoVersionSync
    /\ overlap = <<>>
    /\ transport = "open"

\* MessageStore::delete_conversation
DeleteConversation ==
    /\ last.op = "init"
    /\ \E conversation_id \in TableConvIds :
         /\ message_store' = store_delete_conversation(message_store,
                                                      conversation_id)
         /\ last' = LastCall("delete_conversation", <<conversation_id>>,
                             TRUE, "")
    /\ UNCHANGED http_requests
    /\ StoreUntouched

\* MessageStore::mark_as_read_by_seqs on one of the tables
MarkTableAsRead ==
    /\ last.op = "init"
    /\ \E conversation_id \in TableConvIds, seqs \in SUBSET {1, 2} :
         \E r \in {mark_as_read_by_seqs(message_store, conversation_id,
                                        seqs)} :
            /\ message_store' = r.store
            /\ last' = LastCall("mark_as_read_by_seqs",
                                <<conversation_id, seqs>>, TRUE, r.affected)
    /\ UNCHANGED http_requests
    /\ StoreUntouched

NextTables == DeleteConversation \/ MarkTableAsRead

SpecTables == InitTables /\ [][NextTables]_vars

\* the rows of the table that backs a conversation ID
TableOf(store, conversation_id) ==
    [k \in {x \in DOMAIN store.rows : x[1] = table_name(conversation_id)}
       |-> store.rows[k]]

\* C39: a message-store call on one conversation ID leaves the messages
\* stored under every other conversation ID as they were; two distinct
\* conversation IDs are backed by two distinct tables
C39_OtherConversationsUntouched ==
    [][last'.op \in {"delete_conversation", "mark_as_read_by_seqs"}
       => \A other \in TableConvIds \ {last'.args[1]} :
             /\ table_name(other) # table_name(last'.args[1])
             /\ TableOf(message_store', other) = TableOf(message_store, other)
      ]_vars

\* C40: once the connection is closed, a heartbeat task that is still
\* running eventually terminates: its next ping write fails and the loop
\* breaks
C40_HeartbeatEndsAfterClose ==
    (transport = "closed" /\ pc.heartbeat = "ticking")
        ~> (pc.heartbeat = "terminated")

\* the heartbeat task has ended on a ping that the closed connection
\* refused
C40_Witness ==
    /\ transport = "closed"
    /\ pc.heartbeat = "terminated"
    /\ last.op = "ping" /\ last.args = <<TRUE>> /\ ~last.ok

============================
